---------------------------- MODULE Spec2Model ----------------------------
(***************************************************************************)
(* A model of six parts of the BAML semantic core:                         *)
(*                                                                         *)
(*   - VariantProperties::to_prompt (parser-database/src/types/mod.rs),    *)
(*     the prompt assembler, under the specification SpecPrompt;           *)
(*   - validate_file (baml-core/src/lib.rs) with the validation pipeline   *)
(*     (baml-core/src/validate), under the specification Spec;             *)
(*   - visit_variant (parser-database/src/types/mod.rs), the structural    *)
(*     validation of a variant, under the specification SpecVariant;       *)
(*   - Expression::as_bool, as_string_value and resolve                    *)
(*     (baml-core/src/ir/walker.rs), under the specification SpecExpr;     *)
(*   - the queries on a schema: find_* (baml-core/src/ir/ir_helpers and    *)
(*     parser-database/src/walkers), the accessors of ConfigurationWalker, *)
(*     build_target_type and try_from_schema (baml/src/lib.rs) with the    *)
(*     Python interface (baml/src/python_interface.rs), under SpecQuery;   *)
(*   - resolve_types with visit_class (parser-database/src/types/mod.rs)   *)
(*     and to_raw_field_type (parser-database/src/walkers/mod.rs), under   *)
(*     SpecTypes.                                                          *)
(*                                                                         *)
(* SpecFair is Spec with the scheduling of the workers of validate_file;   *)
(* SpecTables is to_prompt on tables of two printer blocks.                *)
(*                                                                         *)
(* Text is a sequence of one-character strings; offsets are the 0-based    *)
(* byte offsets of the Rust code.                                          *)
(***************************************************************************)
EXTENDS Integers, Sequences, FiniteSets, TLC

VARIABLES
    \* ---- to_prompt -------------------------------------------------------
    template,      \* self.prompt.value
    input,         \* self.replacers.0 : HashMap<Variable, String>
    output,        \* self.replacers.1 : HashMap<PrinterBlock, String>
    chats,         \* self.replacers.2 : Vec<ChatBlock>
    ppc,           \* position inside to_prompt
    prompt,        \* the local `prompt`
    used_inputs,   \* the local `used_inputs`
    last_idx,      \* the local `last_idx`
    parts,         \* the local `parts`
    ci,            \* how many elements of `chats` the for loop has visited
    result,        \* the PromptAst returned
    \* ---- validate_file ---------------------------------------------------
    parsed,        \* per input file, what parse_schema returns for it
    wpc,           \* per input file, the position of the worker that handles it
    diag_lock,     \* the holder of Mutex::new(&mut diagnostics), Free if none
    db_lock,       \* the holder of Mutex::new(&mut db), Free if none
    diagnostics,   \* the Diagnostics: what was pushed, in the order of the pushes
    db,            \* the ParserDatabase: the files whose tree add_ast took, in order
    mpc,           \* the position of the thread that runs validate_file
    ran,           \* the stages and passes run after the parallel stage, in order
    \* ---- visit_variant ---------------------------------------------------
    is_llm,        \* variant.is_llm()
    fields,        \* variant.iter_fields(): the fields of the variant, in order
    adapters,      \* variant.iter_adapters(): its adapters, in order
    tpc,           \* position inside visit_variant
    fi,            \* how many fields the for_each has visited
    client,        \* the local `client`
    vprompt,       \* the local `prompt` of visit_variant
    ai,            \* how many adapters the fold has visited
    prev,          \* the accumulator of the fold: (input adapter, output adapter),
                   \* an Option being <<>> for None and <<x>> for Some(x)
    errors,        \* the errors pushed to ctx, in order
    warnings,      \* the warnings pushed to ctx, in order
    variant_properties,  \* ctx.types.variant_properties.get(idx), as an Option
    \* ---- Expression::as_bool, as_string_value, resolve ------------------
    expr,          \* self: the Expression
    env_values,    \* the environment snapshot: HashMap<String, String>
    epc,           \* "start" before the call, the name of the function after it
    ret,           \* the Result the call returned
    \* ---- the queries on a schema: find_*, ConfigurationWalker, build_target_type
    tops,          \* the declarations of the schema in the order of ast.iter_tops()
    qpc,           \* "start", "walker" once a ConfigurationWalker is held, "done"
    calls,         \* the functions called so far, in order
    arg,           \* the name the first call was given, None if it was given none
    walker,        \* the ConfigurationWalker held, as an Option of (id, kind tag)
    answer,        \* what the last call returned
    schema_diagnostics,  \* validated_schema.diagnostics of the schema queried
    steps,         \* the steps try_from_schema and its caller took, in order
    \* ---- resolve_types, visit_class and to_raw_field_type ----------------
    cpc,           \* "visiting" inside the loop of resolve_types, "converted"
                   \* after a call of to_raw_field_type
    ti,            \* how many declarations the loop of resolve_types has visited
    class_fields,  \* the field types of the class visited last, in order
    class_dependencies,  \* ctx.types.class_dependencies: class id -> set of names
    ft,            \* the FieldType given to to_raw_field_type
    raw            \* the baml_types::FieldType it returned, as an Option

pvars == <<template, input, output, chats, ppc, prompt, used_inputs, last_idx,
           parts, ci, result>>

vvars == <<parsed, wpc, diag_lock, db_lock, diagnostics, db, mpc, ran>>

tvars == <<is_llm, fields, adapters, tpc, fi, client, vprompt, ai, prev,
           errors, warnings, variant_properties>>

evars == <<expr, env_values, epc, ret>>

qvars == <<tops, qpc, calls, arg, walker, answer, schema_diagnostics, steps>>

cvars == <<cpc, ti, class_fields, class_dependencies, ft, raw>>

vars == <<pvars, vvars, tvars, evars, qvars, cvars>>

\* what an action of one part leaves alone: the variables of the other parts
exceptPrompt   == <<vvars, tvars, evars, qvars, cvars>>
exceptValidate == <<pvars, tvars, evars, qvars, cvars>>
exceptVariant  == <<pvars, vvars, evars, qvars, cvars>>
exceptExpr     == <<pvars, vvars, tvars, qvars, cvars>>
exceptQuery    == <<pvars, vvars, tvars, evars, cvars>>
\* the queries keep the schema, which the walk over the types reads
exceptTypes    == <<pvars, vvars, tvars, evars, qvars>>

---------------------------------------------------------------------------
(* Bounds of the model. *)

\* the longest template, counted in chunks (a text character or a marker key)
MaxChunks == 3
\* the longest list of chat-role markers
MaxChats == 2
\* the number of input files of validate_file
NumFiles == 3
\* the most fields a variant declares
MaxFields == 3
\* the most adapters a variant declares
MaxAdapters == 2
\* the most characters of the text of a Numeric expression
MaxText == 3
\* the most elements of a List or Map expression
MaxElems == 2
\* the most declarations of a schema
MaxTops == 2
\* the most diagnostics of a validated schema
MaxDiags == 2
\* the deepest nesting of a field type
MaxDepth == 2
\* the most fields of a class whose fields are plain identifiers
MaxClassFields == 2

---------------------------------------------------------------------------
(* Strings. *)

Min(S) == CHOOSE x \in S : \A y \in S : x <= y
Max(S) == CHOOSE x \in S : \A y \in S : x >= y

\* char::is_whitespace, on the characters of the model
WhiteSpace == {" "}

\* the byte value of a character: the order of String's Ord
Byte(c) ==
    CASE c = " " -> 32
      [] c = "a" -> 97
      [] c = "b" -> 98
      [] c = "p" -> 112
      [] c = "s" -> 115
      [] c = "u" -> 117
      [] c = "v" -> 118
      [] c = "w" -> 119
      [] c = "x" -> 120
      [] c = "y" -> 121
      [] c = "{" -> 123
      [] c = "}" -> 125

\* &s[a..b]
Slice(s, a, b) == SubSeq(s, a + 1, b)

\* whether pat occurs in s at byte offset i
MatchAt(s, pat, i) ==
    /\ i + Len(pat) <= Len(s)
    /\ \A j \in 1..Len(pat) : s[i + j] = pat[j]

\* str::find: the set holding the first offset of pat in s, empty for None
Find(s, pat) ==
    LET hits == {i \in 0..(Len(s) - Len(pat)) : MatchAt(s, pat, i)}
    IN  IF hits = {} THEN {} ELSE {Min(hits)}

\* str::contains
Contains(s, pat) == Find(s, pat) # {}

\* str::replace: every non-overlapping match, left to right
RECURSIVE Replace(_, _, _)
Replace(s, from, to) ==
    LET f == Find(s, from)
    IN  IF f = {} THEN s
        ELSE LET i == CHOOSE x \in f : TRUE
             IN  Slice(s, 0, i) \o to
                   \o Replace(Slice(s, i + Len(from), Len(s)), from, to)

\* str::trim
Trim(s) ==
    LET keep == {i \in 1..Len(s) : s[i] \notin WhiteSpace}
    IN  IF keep = {} THEN <<>> ELSE SubSeq(s, Min(keep), Max(keep))

\* String's Ord: a < b
StrLt(a, b) ==
    \E i \in 1..Len(b) :
        /\ i - 1 <= Len(a)
        /\ \A j \in 1..(i - 1) : a[j] = b[j]
        /\ (Len(a) = i - 1 \/ Byte(a[i]) < Byte(b[i]))

\* Ord of (String, String): p <= q
PairLe(p, q) ==
    \/ StrLt(p[1], q[1])
    \/ p[1] = q[1] /\ (StrLt(p[2], q[2]) \/ p[2] = q[2])

\* Vec::sort of the (key, value) pairs: a stable insertion sort
RECURSIVE Sort(_)
Sort(s) ==
    IF s = <<>> THEN <<>>
    ELSE LET rest == Sort(SubSeq(s, 1, Len(s) - 1))
             x    == s[Len(s)]
             k    == Cardinality({i \in 1..Len(rest) : PairLe(rest[i], x)})
         IN  SubSeq(rest, 1, k) \o <<x>> \o SubSeq(rest, k + 1, Len(rest))

\* the iteration orders of a hash table with key set S
Orders(S) ==
    {o \in [1..Cardinality(S) -> S] : \A x \in S : \E i \in DOMAIN o : o[i] = x}

---------------------------------------------------------------------------
(* The markers of a prompt and their keys. *)

\* the input variables, printer blocks and chat roles of the model
Variables == {"a", "b"}
Printers  == {"p"}
Roles     == {"s", "u"}

\* Variable::key, PrinterBlock::key, ChatBlock::key: a deterministic text per
\* marker, delimited so that no key is part of another and no plain text
\* holds one
key(m) == <<"{", m, "}">>

\* the text a table binds a marker to: plain text, which holds no key
InputValue(k)   == IF k = "a" THEN <<"w">> ELSE <<"v">>
PrinterValue(k) == <<" ", "y">>

\* the pieces a template is made of: plain characters and marker keys
Chunks == {<<" ">>, <<"x">>} \cup {key(m) : m \in Variables \cup Printers \cup Roles}

RECURSIVE Concat(_)
Concat(cs) == IF cs = <<>> THEN <<>> ELSE cs[1] \o Concat(Tail(cs))

Templates == {Concat(cs) : cs \in UNION {[1..n -> Chunks] : n \in 0..MaxChunks}}

\* the tables: any subset of the markers may be declared
InputTables  == {[k \in S |-> InputValue(k)] : S \in SUBSET Variables}
OutputTables == {[k \in S |-> PrinterValue(k)] : S \in SUBSET Printers}

ChatLists == UNION {[1..n -> Roles] : n \in 0..MaxChats}

---------------------------------------------------------------------------
(* VariantProperties::to_prompt. *)

\* Option::None for the chat of a part
None == "None"

\* a Mutex nobody holds (the holders are the files 1..NumFiles)
Free == 0

NoResult == [kind |-> "None", text |-> <<>>, parts |-> <<>>, used |-> <<>>]

\* the closure of the fold over `input`: acc is (prompt, used_inputs)
InputStep(acc, k) ==
    IF Contains(acc.prompt, key(k))
    THEN [prompt |-> acc.prompt,
          used   |-> Append(acc.used, <<key(k), input[k]>>)]
    ELSE acc

RECURSIVE FoldInput(_, _)
FoldInput(acc, order) ==
    IF order = <<>> THEN acc
    ELSE FoldInput(InputStep(acc, Head(order)), Tail(order))

\* a variant of OutputStep that replaces the first occurrence only (replacen)
OutputStepFirstOnly(p, k) ==
    LET f == Find(p, key(k))
    IN  IF f = {} THEN p
        ELSE LET i == CHOOSE x \in f : TRUE
             IN  Slice(p, 0, i) \o output[k] \o Slice(p, i + Len(key(k)), Len(p))

\* the closure of the fold over `output`
OutputStep(p, k) == Replace(p, key(k), output[k])

RECURSIVE FoldOutput(_, _)
FoldOutput(p, order) ==
    IF order = <<>> THEN p
    ELSE FoldOutput(OutputStep(p, Head(order)), Tail(order))

\* a variant of SortUsed that leaves the pairs in the order of the pushes
SortUsedSkipped(u) == u

\* used_inputs.sort()
SortUsed(u) == Sort(u)

\* a variant of PartText that does not trim
PartTextUntrimmed(ps, idx) ==
    LET start == ps[idx].end
        end   == IF idx + 1 <= Len(ps) THEN ps[idx + 1].start ELSE Len(prompt)
    IN  Slice(prompt, start, end)

\* the text a part owns: from the end of its key to the start of the next part
PartText(ps, idx) ==
    LET start == ps[idx].end
        end   == IF idx + 1 <= Len(ps) THEN ps[idx + 1].start ELSE Len(prompt)
    IN  Trim(Slice(prompt, start, end))

\* the filter_map over parts: the parts whose text is not empty
RECURSIVE CollectFrom(_, _)
CollectFrom(ps, idx) ==
    IF idx > Len(ps) THEN <<>>
    ELSE LET p == PartText(ps, idx)
         IN  (IF p = <<>> THEN <<>> ELSE <<<<ps[idx].chat, p>>>>)
               \o CollectFrom(ps, idx + 1)

\* a variant of FirstPart that never adds the leading part
FirstPartNoLead(ps) == IF ps = <<>> THEN "panic" ELSE "keep"

\* a variant of FirstPart that accepts an empty list of parts
FirstPartNoPanic(ps) ==
    IF ps # <<>> /\ ps[1].chat # None /\ ps[1].start > 0 THEN "insert" ELSE "keep"

\* what the match on parts.first() does: "insert", "keep" or "panic"
FirstPart(ps) ==
    IF ps = <<>> THEN "panic"
    ELSE IF ps[1].chat # None /\ ps[1].start > 0 THEN "insert"
    ELSE "keep"

\* no function of Expression is being called
IdleExpr ==
    /\ expr = <<>>
    /\ env_values = <<>>
    /\ epc = "idle"
    /\ ret = <<>>

\* neither resolve_types nor to_raw_field_type is running
IdleTypes ==
    /\ cpc = "idle"
    /\ ti = 0
    /\ class_fields = <<>>
    /\ class_dependencies = <<>>
    /\ ft = <<>>
    /\ raw = <<>>

\* no query on a schema is being made
IdleQuery ==
    /\ tops = <<>>
    /\ qpc = "idle"
    /\ calls = <<>>
    /\ arg = None
    /\ walker = <<>>
    /\ answer = <<>>
    /\ schema_diagnostics = <<>>
    /\ steps = <<>>

\* visit_variant is not running
IdleVariant ==
    /\ is_llm = FALSE
    /\ fields = <<>>
    /\ adapters = <<>>
    /\ tpc = "idle"
    /\ fi = 0
    /\ client = None
    /\ vprompt = None
    /\ ai = 0
    /\ prev = <<<<>>, <<>>>>
    /\ errors = <<>>
    /\ warnings = <<>>
    /\ variant_properties = <<>>

\* validate_file is not running
IdleValidate ==
    /\ parsed = <<>>
    /\ wpc = <<>>
    /\ diag_lock = Free
    /\ db_lock = Free
    /\ diagnostics = <<>>
    /\ db = <<>>
    /\ mpc = "idle"
    /\ ran = <<>>

InitPrompt ==
    /\ IdleTypes
    /\ IdleValidate
    /\ IdleVariant
    /\ IdleExpr
    /\ IdleQuery
    /\ template \in Templates
    /\ input \in InputTables
    /\ output \in OutputTables
    /\ chats \in ChatLists
    /\ ppc = "inputs"
    /\ prompt = <<>>
    /\ used_inputs = <<>>
    /\ last_idx = 0
    /\ parts = <<>>
    /\ ci = 0
    /\ result = NoResult

\* lines 143-155: the fold over the input table, in the table's iteration order
ScanInputs ==
    /\ ppc = "inputs"
    /\ \E order \in Orders(DOMAIN input) :
         LET acc == FoldInput([prompt |-> template, used |-> <<>>], order)
         IN  /\ prompt' = acc.prompt
             /\ used_inputs' = acc.used
    /\ ppc' = "outputs"
    /\ UNCHANGED exceptPrompt
    /\ UNCHANGED <<template, input, output, chats, last_idx, parts, ci, result>>

\* lines 157-161: the fold over the printer table, then the sort
ReplaceOutputs ==
    /\ ppc = "outputs"
    /\ \E order \in Orders(DOMAIN output) : prompt' = FoldOutput(prompt, order)
    /\ used_inputs' = SortUsed(used_inputs)
    /\ ppc' = IF chats = <<>> THEN "string" ELSE "chats"
    /\ UNCHANGED exceptPrompt
    /\ UNCHANGED <<template, input, output, chats, last_idx, parts, ci, result>>

\* lines 163-164
ReturnString ==
    /\ ppc = "string"
    /\ result' = [kind |-> "String", text |-> prompt, parts |-> <<>>,
                  used |-> used_inputs]
    /\ ppc' = "done"
    /\ UNCHANGED exceptPrompt
    /\ UNCHANGED <<template, input, output, chats, prompt, used_inputs, last_idx,
                   parts, ci>>

\* a variant of ChatSearch that searches the whole prompt
ChatSearchWhole(p, from, splitter) == Find(p, splitter)

\* line 171: prompt[last_idx..].find(&splitter)
ChatSearch(p, from, splitter) == Find(Slice(p, from, Len(p)), splitter)

\* lines 169-179: one iteration of the loop over chats
LocateChat ==
    /\ ppc = "chats"
    /\ ci < Len(chats)
    /\ LET chat     == chats[ci + 1]
           splitter == key(chat)
           idx      == ChatSearch(prompt, last_idx, splitter)
       IN  IF idx # {}
           THEN LET i == CHOOSE x \in idx : TRUE
                IN  /\ parts' = Append(parts,
                          [chat |-> chat, start |-> i + last_idx,
                           end |-> i + last_idx + Len(splitter)])
                    /\ last_idx' = last_idx + i + Len(splitter)
           ELSE UNCHANGED <<parts, last_idx>>
    /\ ci' = ci + 1
    /\ UNCHANGED exceptPrompt
    /\ UNCHANGED <<template, input, output, chats, ppc, prompt, used_inputs, result>>

\* lines 181-188: the match on parts.first()
MatchFirst ==
    /\ ppc = "chats"
    /\ ci = Len(chats)
    /\ LET m == FirstPart(parts)
       IN  /\ parts' = IF m = "insert"
                       THEN <<[chat |-> None, start |-> 0, end |-> 0]>> \o parts
                       ELSE parts
           /\ ppc' = IF m = "panic" THEN "panic" ELSE "collect"
    /\ UNCHANGED exceptPrompt
    /\ UNCHANGED <<template, input, output, chats, prompt, used_inputs, last_idx,
                   ci, result>>

\* lines 191-212
ReturnChat ==
    /\ ppc = "collect"
    /\ result' = [kind |-> "Chat", text |-> <<>>, parts |-> CollectFrom(parts, 1),
                  used |-> used_inputs]
    /\ ppc' = "done"
    /\ UNCHANGED exceptPrompt
    /\ UNCHANGED <<template, input, output, chats, prompt, used_inputs, last_idx,
                   parts, ci>>

NextPrompt ==
    \/ ScanInputs
    \/ ReplaceOutputs
    \/ ReturnString
    \/ LocateChat
    \/ MatchFirst
    \/ ReturnChat

SpecPrompt == InitPrompt /\ [][NextPrompt]_vars

---------------------------------------------------------------------------
(* validate_file: the parallel parse and merge, then the stages that follow. *)

Files == 1..NumFiles

\* what parse_schema returns: Ok((ast, err)) with an err that holds no error,
\* Ok((ast, err)) with an err that holds errors, or Err(err)
Outcomes == {"ok", "ok_errors", "fail"}

\* a file parsed: parse_schema returned Ok
IsOk(o) == o # "fail"

\* the Diagnostics a worker pushes for file f
ParseDiag(f) == [file |-> f, pass |-> "parse", errors |-> parsed[f] # "ok"]

\* the Diagnostics pushed by a pass that found errors
PassDiag(p) == [file |-> 0, pass |-> p, errors |-> TRUE]

\* Diagnostics::has_errors
has_errors(d) == \E i \in DOMAIN d : d[i].errors

\* Diagnostics::push
push(d, e) == Append(d, e)

\* a variant of add_ast that keeps the trees in the order of the input files
add_astInInputOrder(d, f) ==
    SelectSeq(d, LAMBDA g : g < f) \o <<f>> \o SelectSeq(d, LAMBDA g : g > f)

\* ParserDatabase::add_ast
add_ast(d, f) == Append(d, f)

\* a variant of CanLock that does not wait for the holder
CanLockAlways(m) == TRUE

\* Mutex::lock returns once nobody holds the mutex
CanLock(m) == m = Free

\* a variant of WorkerPush that drops the diagnostic of a failed parse
WorkerPushOkOnly(d, f) == IF IsOk(parsed[f]) THEN push(d, ParseDiag(f)) ELSE d

\* what a worker does to the diagnostics once it holds their lock
WorkerPush(d, f) == push(d, ParseDiag(f))

\* a variant of EarlyReturn that never returns early
EarlyReturnNever(d) == FALSE

\* `if diagnostics.has_errors() { return ... }`
EarlyReturn(d) == has_errors(d)

\* to_prompt is not running
IdlePrompt ==
    /\ template = <<>>
    /\ input = <<>>
    /\ output = <<>>
    /\ chats = <<>>
    /\ ppc = "idle"
    /\ prompt = <<>>
    /\ used_inputs = <<>>
    /\ last_idx = 0
    /\ parts = <<>>
    /\ ci = 0
    /\ result = NoResult

Init ==
    /\ IdleTypes
    /\ IdlePrompt
    /\ IdleVariant
    /\ IdleExpr
    /\ IdleQuery
    /\ parsed \in [Files -> Outcomes]
    /\ wpc = [f \in Files |-> "parse"]
    /\ diag_lock = Free
    /\ db_lock = Free
    /\ diagnostics = <<>>
    /\ db = <<>>
    /\ mpc = "parallel"
    /\ ran = <<>>

\* line 49: the worker parses its file and takes a branch of the match
Parse(f) ==
    /\ wpc[f] = "parse"
    /\ wpc' = [wpc EXCEPT ![f] = "lock_diag"]
    /\ UNCHANGED <<parsed, diag_lock, db_lock, diagnostics, db, mpc, ran>>
    /\ UNCHANGED exceptValidate

\* lines 51 and 57: diagnostics.lock()
LockDiag(f) ==
    /\ wpc[f] = "lock_diag"
    /\ CanLock(diag_lock)
    /\ diag_lock' = f
    /\ wpc' = [wpc EXCEPT ![f] = IF IsOk(parsed[f]) THEN "lock_db" ELSE "push"]
    /\ UNCHANGED <<parsed, db_lock, diagnostics, db, mpc, ran>>
    /\ UNCHANGED exceptValidate

\* line 52: db.lock()
LockDb(f) ==
    /\ wpc[f] = "lock_db"
    /\ CanLock(db_lock)
    /\ db_lock' = f
    /\ wpc' = [wpc EXCEPT ![f] = "push"]
    /\ UNCHANGED <<parsed, diag_lock, diagnostics, db, mpc, ran>>
    /\ UNCHANGED exceptValidate

\* lines 53 and 58: diagnostics.push(err)
Push(f) ==
    /\ wpc[f] = "push"
    /\ diagnostics' = WorkerPush(diagnostics, f)
    /\ wpc' = [wpc EXCEPT ![f] = IF IsOk(parsed[f]) THEN "add_ast" ELSE "unlock_diag"]
    /\ UNCHANGED <<parsed, diag_lock, db_lock, db, mpc, ran>>
    /\ UNCHANGED exceptValidate

\* line 54: db.add_ast(ast)
AddAst(f) ==
    /\ wpc[f] = "add_ast"
    /\ db' = add_ast(db, f)
    /\ wpc' = [wpc EXCEPT ![f] = "unlock_db"]
    /\ UNCHANGED <<parsed, diag_lock, db_lock, diagnostics, mpc, ran>>
    /\ UNCHANGED exceptValidate

\* line 55: the guard of db is dropped first
UnlockDb(f) ==
    /\ wpc[f] = "unlock_db"
    /\ db_lock' = Free
    /\ wpc' = [wpc EXCEPT ![f] = "unlock_diag"]
    /\ UNCHANGED <<parsed, diag_lock, diagnostics, db, mpc, ran>>
    /\ UNCHANGED exceptValidate

\* lines 55 and 59: the guard of diagnostics is dropped
UnlockDiag(f) ==
    /\ wpc[f] = "unlock_diag"
    /\ diag_lock' = Free
    /\ wpc' = [wpc EXCEPT ![f] = "done"]
    /\ UNCHANGED <<parsed, db_lock, diagnostics, db, mpc, ran>>
    /\ UNCHANGED exceptValidate

\* the parallel stage has ended: for_each returned
StageEnded == \A f \in Files : wpc[f] = "done"

\* lines 60-65: for_each returns once every worker is done
Join ==
    /\ mpc = "parallel"
    /\ StageEnded
    /\ mpc' = IF EarlyReturn(diagnostics) THEN "returned" ELSE "db_validate"
    /\ UNCHANGED <<parsed, wpc, diag_lock, db_lock, diagnostics, db, ran>>
    /\ UNCHANGED exceptValidate

\* lines 67-73: db.validate returns Err(d), or Ok after pushing errors or not
DbValidate ==
    /\ mpc = "db_validate"
    /\ ran' = Append(ran, "db_validate")
    /\ \E out \in {"ok", "ok_errors", "err"} :
         /\ diagnostics' = CASE out = "ok" -> diagnostics
                             [] out = "ok_errors" -> push(diagnostics, PassDiag("db_validate"))
                             [] out = "err" -> <<PassDiag("db_validate")>>
         /\ mpc' = IF out = "err" \/ EarlyReturn(diagnostics') THEN "returned" ELSE "enums"
    /\ UNCHANGED <<parsed, wpc, diag_lock, db_lock, db>>
    /\ UNCHANGED exceptValidate

\* a variant of RunCycle that runs cycle::validate whatever the diagnostics
RunCycleAlways(d) == TRUE

\* validations.rs line 12: whether cycle::validate runs
RunCycle(d) == ~has_errors(d)

\* validations.rs line 9: enums::validate
Enums ==
    /\ mpc = "enums"
    /\ ran' = Append(ran, "enums")
    /\ \E e \in BOOLEAN :
         diagnostics' = IF e THEN push(diagnostics, PassDiag("enums")) ELSE diagnostics
    /\ mpc' = "classes"
    /\ UNCHANGED <<parsed, wpc, diag_lock, db_lock, db>>
    /\ UNCHANGED exceptValidate

\* validations.rs lines 10-12: classes::validate, then the test of has_errors
Classes ==
    /\ mpc = "classes"
    /\ ran' = Append(ran, "classes")
    /\ \E e \in BOOLEAN :
         diagnostics' = IF e THEN push(diagnostics, PassDiag("classes")) ELSE diagnostics
    /\ mpc' = IF RunCycle(diagnostics') THEN "cycle" ELSE "validated"
    /\ UNCHANGED <<parsed, wpc, diag_lock, db_lock, db>>
    /\ UNCHANGED exceptValidate

\* validations.rs line 13: cycle::validate
Cycle ==
    /\ mpc = "cycle"
    /\ ran' = Append(ran, "cycle")
    /\ \E e \in BOOLEAN :
         diagnostics' = IF e THEN push(diagnostics, PassDiag("cycle")) ELSE diagnostics
    /\ mpc' = "validated"
    /\ UNCHANGED <<parsed, wpc, diag_lock, db_lock, db>>
    /\ UNCHANGED exceptValidate

\* lines 78-80: back in validate_file after the pipeline
AfterValidate ==
    /\ mpc = "validated"
    /\ mpc' = IF EarlyReturn(diagnostics) THEN "returned" ELSE "finalize"
    /\ UNCHANGED <<parsed, wpc, diag_lock, db_lock, diagnostics, db, ran>>
    /\ UNCHANGED exceptValidate

\* lines 83-85: db.finalize, then the return
Finalize ==
    /\ mpc = "finalize"
    /\ ran' = Append(ran, "finalize")
    /\ \E e \in BOOLEAN :
         diagnostics' = IF e THEN push(diagnostics, PassDiag("finalize")) ELSE diagnostics
    /\ mpc' = "returned"
    /\ UNCHANGED <<parsed, wpc, diag_lock, db_lock, db>>
    /\ UNCHANGED exceptValidate

Worker(f) ==
    \/ Parse(f)
    \/ LockDiag(f)
    \/ LockDb(f)
    \/ Push(f)
    \/ AddAst(f)
    \/ UnlockDb(f)
    \/ UnlockDiag(f)

Next ==
    \/ \E f \in Files : Worker(f)
    \/ Join
    \/ DbValidate
    \/ Enums
    \/ Classes
    \/ Cycle
    \/ AfterValidate
    \/ Finalize

Spec == Init /\ [][Next]_vars

---------------------------------------------------------------------------
(* Claims about to_prompt, checked under SpecPrompt. *)

\* s with every occurrence of the key of a marker of bind replaced by the text
\* bind gives it, all at once, in one pass from left to right
RECURSIVE SubstMarkers(_, _)
SubstMarkers(s, bind) ==
    IF s = <<>> THEN <<>>
    ELSE LET ms == {m \in DOMAIN bind : MatchAt(s, key(m), 0)}
         IN  IF ms = {} THEN <<Head(s)>> \o SubstMarkers(Tail(s), bind)
             ELSE LET m == CHOOSE x \in ms : TRUE
                  IN  bind[m] \o SubstMarkers(Slice(s, Len(key(m)), Len(s)), bind)

\* the input markers whose key occurs in the template
UsedKeys == {k \in DOMAIN input : Contains(template, key(k))}

\* the located chat markers: the entries of parts that have a chat
Located == SelectSeq(parts, LAMBDA e : e.chat # None)

\* the trimmed text between the end of located marker i and the next one
OwnedText(i) ==
    Trim(Slice(prompt, Located[i].end,
               IF i < Len(Located) THEN Located[i + 1].start ELSE Len(prompt)))

\* the parts of the result that have a role
RoleParts == SelectSeq(result.parts, LAMBDA e : e[1] # None)

ChatDone == ppc = "done" /\ result.kind = "Chat"

\* C1: with no chat-role marker, to_prompt returns the single-part form whose
\* text is the template with every input marker whose key occurs replaced by
\* its value (and every printer marker by its text).
C1_PlainTextSubstitutesInputs ==
    (ppc = "done" /\ chats = <<>>) =>
        /\ result.kind = "String"
        /\ result.text = SubstMarkers(template, input @@ output)

\* C2: the consumed-input list returned, in the single-part and in the chat
\* form, holds exactly one (key, value) pair for each input marker whose key
\* occurs in the template, in ascending order of key; a marker whose key does
\* not occur gives no pair and no failure.
C2_ConsumedInputs ==
    /\ ppc = "done" =>
         /\ \A k \in UsedKeys :
              Cardinality({i \in DOMAIN result.used :
                             result.used[i] = <<key(k), input[k]>>}) = 1
         /\ Len(result.used) = Cardinality(UsedKeys)
         /\ \A i, j \in DOMAIN result.used :
              i < j => StrLt(result.used[i][1], result.used[j][1])
    /\ ppc = "panic" => chats # <<>>

C2_Witness ==
    /\ ppc = "done"
    /\ Len(result.used) = 2
    /\ result.kind = "Chat"

C4_LeadingPart ==
    ChatDone =>
        LET lead   == Trim(Slice(prompt, 0, Located[1].start))
            noRole == {i \in DOMAIN result.parts : result.parts[i][1] = None}
        IN  IF Located[1].start > 0 /\ lead # <<>>
            THEN noRole = {1} /\ result.parts[1] = <<None, lead>>
            ELSE noRole = {}

C4_Witness ==
    /\ ChatDone
    /\ Len(result.parts) = 2
    /\ result.parts[1][1] = None

\* C5: when chat-role markers are declared and the key of none of them occurs
\* in the substituted text, to_prompt ends in a fatal internal error and
\* returns nothing.
C5_UnlocatedChatsPanic ==
    ( /\ ppc \in {"collect", "done", "panic"}
      /\ chats # <<>>
      /\ \A i \in DOMAIN chats : ~Contains(prompt, key(chats[i])) )
    => (ppc = "panic" /\ result = NoResult)

C5_Witness ==
    /\ ppc = "panic"
    /\ Len(chats) = 2
    /\ template # <<>>

---------------------------------------------------------------------------
(* Claims about validate_file and the validation pipeline, checked under    *)
(* Spec.                                                                    *)

Range(q) == {q[i] : i \in DOMAIN q}

\* the passes that have recorded an error that the diagnostics hold
ErrorsOf(d) == {d[i].pass : i \in {j \in DOMAIN d : d[j].errors}}

\* the passes of the validation pipeline that have run, in order
PipelineRan == SelectSeq(ran, LAMBDA p : p \in {"enums", "classes", "cycle"})

\* C7: the validation pipeline runs enum validation first, class validation
\* second, and cycle validation third if and only if enum and class
\* validation recorded no error.
C7_PipelineOrder ==
    /\ PipelineRan = SubSeq(<<"enums", "classes", "cycle">>, 1, Len(PipelineRan))
    /\ (mpc \in {"validated", "finalize", "returned"} /\ PipelineRan # <<>>) =>
         /\ Len(PipelineRan) >= 2
         /\ "cycle" \in Range(PipelineRan)
              <=> ErrorsOf(diagnostics) \cap {"enums", "classes"} = {}

C7_Witness ==
    /\ mpc = "returned"
    /\ ran = <<"db_validate", "enums", "classes", "cycle">>

\* C8 as stated: once an error is recorded every later pass still runs, and
\* cycle detection is the only pass ever skipped because of earlier errors.
C8_OnlyCycleSkipped ==
    mpc = "returned" =>
        {"db_validate", "enums", "classes", "finalize"} \subseteq Range(ran)

\* C8, amended: inside the validation pipeline an error of enum validation
\* does not stop class validation, and cycle detection is the only pass of
\* the pipeline that earlier errors skip; validate_file itself returns as soon
\* as the diagnostics hold an error after the parallel stage, after
\* db.validate or after the pipeline, and skips every stage that remains.
C8_StagesRunUntilError ==
    mpc = "returned" =>
        LET errs == ErrorsOf(diagnostics)
        IN  ran = CASE "parse" \in errs -> <<>>
                    [] "db_validate" \in errs -> <<"db_validate">>
                    [] errs \cap {"enums", "classes"} # {} ->
                         <<"db_validate", "enums", "classes">>
                    [] "cycle" \in errs ->
                         <<"db_validate", "enums", "classes", "cycle">>
                    [] OTHER ->
                         <<"db_validate", "enums", "classes", "cycle", "finalize">>

C8_Witness ==
    /\ mpc = "returned"
    /\ ErrorsOf(diagnostics) = {"enums"}
    /\ "classes" \in Range(ran)

\* C9: a file whose parse fails gives its parse diagnostic and stops no other
\* file: whatever the interleaving, when the parallel stage ends the
\* diagnostics hold one pushed parse outcome per input file and the Database
\* holds the tree of exactly the files that parsed.
C9_EveryFileCollected ==
    (StageEnded /\ ran = <<>>) =>
        /\ Len(diagnostics) = NumFiles
        /\ \A f \in Files : \E i \in DOMAIN diagnostics : diagnostics[i] = ParseDiag(f)
        /\ Range(db) = {f \in Files : IsOk(parsed[f])}
        /\ Len(db) = Cardinality(Range(db))

C9_Witness ==
    /\ StageEnded
    /\ Len(db) >= 1
    /\ \E i, j \in DOMAIN diagnostics :
         /\ i < j
         /\ parsed[diagnostics[i].file] = "fail"
         /\ parsed[diagnostics[j].file] = "ok"

\* the worker of f is between db.lock() and the drop of that guard
InMerge(f) == IsOk(parsed[f]) /\ wpc[f] \in {"push", "add_ast", "unlock_db"}

\* C10: a tree is merged into the Database inside a mutual-exclusion section,
\* and the set of diagnostics the parallel stage collects is the same for
\* every interleaving of the workers: it depends on the input files only.
C10_MergeExclusive ==
    /\ \A f, g \in Files : (InMerge(f) /\ InMerge(g)) => f = g
    /\ \A f \in Files : InMerge(f) => (db_lock = f /\ diag_lock = f)
    /\ (StageEnded /\ ran = <<>>) =>
         Range(diagnostics) = {ParseDiag(f) : f \in Files}

C10_Witness ==
    /\ StageEnded
    /\ ran = <<>>
    /\ Len(db) >= 2
    /\ \E i, j \in DOMAIN diagnostics :
         i < j /\ diagnostics[i].file > diagnostics[j].file

\* the place of the parse diagnostic of file f in the diagnostics
PushedAt(f) == CHOOSE i \in DOMAIN diagnostics : diagnostics[i] = ParseDiag(f)

\* the place of the tree of file f in the Database
InsertedAt(f) == CHOOSE i \in DOMAIN db : db[i] = f

\* C11: the order in which the trees of the files that parse enter the
\* Database is not fixed by the order of the input files: when several
\* workers wait for the free lock any of them may take it, whatever the place
\* of its file in the input, and the trees lie in the Database in the order
\* in which their workers went through the locked section (the order of their
\* pushes to the diagnostics).
C11_InsertionOrderFree ==
    /\ \A f, g \in Files :
         (f < g /\ wpc[f] = "lock_diag" /\ wpc[g] = "lock_diag" /\ diag_lock = Free)
            => (ENABLED LockDiag(f) /\ ENABLED LockDiag(g))
    /\ ran = <<>> =>
         \A f, g \in Range(db) :
            InsertedAt(f) < InsertedAt(g) <=> PushedAt(f) < PushedAt(g)

\* two runs on the same input end with different insertion orders: here the
\* one where the tree of the last file is inserted first
C11_Witness ==
    /\ StageEnded
    /\ \A f \in Files : parsed[f] = "ok"
    /\ db = [i \in 1..NumFiles |-> NumFiles + 1 - i]

---------------------------------------------------------------------------
(* visit_variant (parser-database/src/types/mod.rs): the structural        *)
(* validation of one variant. An expression is modelled by its kind:       *)
(* "string" a quoted string, "raw" a raw block string that validate_prompt *)
(* accepts, "raw_invalid" one that it rejects, "array" an array of raw     *)
(* strings, "numeric" a number.                                            *)

\* coerce::string_with_span: the text of a string expression, or an error
coerce_string(v) == v \in {"string", "raw", "raw_invalid"}

\* coerce::raw_string: the raw string of a raw block string, or an error
coerce_raw_string(v) == v \in {"raw", "raw_invalid"}

\* Expression::as_raw_string_value
as_raw_string_value(v) == v \in {"raw", "raw_invalid"}

\* Expression::as_array
as_array(v) == v = "array"

\* validate_prompt returns Some for a prompt it accepts, else reports errors
validate_prompt(v) == v = "raw"

\* a field of a variant: its name, its value if any, its template arguments
Field(n, v, t) == [name |-> n, value |-> v, template_args |-> t]

FieldShapes ==
    {Field("client", v, FALSE) : v \in {None, "string", "numeric"}}
    \cup {Field("client", "string", TRUE)}
    \cup {Field("prompt", v, FALSE) :
            v \in {None, "raw", "raw_invalid", "string", "numeric"}}
    \cup {Field("prompt", "raw", TRUE)}
    \cup {Field("other", "string", FALSE)}

\* a field type of an adapter: an identifier with its arity
Ident(n, o) == [name |-> n, optional |-> o]

\* an adapter: adapter<from, to> converter
AdapterShapes ==
    [from : {Ident("input", FALSE), Ident("input", TRUE), Ident("string", FALSE)},
     to : {Ident("output", FALSE), Ident("output", TRUE), Ident("string", FALSE)},
     converter : {"raw", "array", "numeric"}]

FieldLists == UNION {[1..n -> FieldShapes] : n \in 0..MaxFields}

AdapterLists == UNION {[1..n -> AdapterShapes] : n \in 0..MaxAdapters}

\* the fields of the variants whose adapters are explored: a client and a
\* prompt that are accepted, or the client alone
PlainFieldLists ==
    {<<Field("client", "string", FALSE), Field("prompt", "raw", FALSE)>>,
     <<Field("client", "string", FALSE)>>}

\* an error diagnostic: the message and the item it points at (the place of
\* the field or adapter in its list, 0 for the variant itself)
Error(m, i) == [msg |-> m, at |-> i]

InitVariant ==
    /\ IdleTypes
    /\ IdlePrompt
    /\ IdleValidate
    /\ IdleExpr
    /\ IdleQuery
    /\ is_llm \in BOOLEAN
    /\ \/ fields \in FieldLists /\ adapters = <<>>
       \/ fields \in PlainFieldLists /\ adapters \in AdapterLists
    /\ tpc = "start"
    /\ fi = 0
    /\ client = None
    /\ vprompt = None
    /\ ai = 0
    /\ prev = <<<<>>, <<>>>>
    /\ errors = <<>>
    /\ warnings = <<>>
    /\ variant_properties = <<>>

\* lines 392-401: only LLM variants are visited further
CheckLlm ==
    /\ tpc = "start"
    /\ IF is_llm
       THEN /\ tpc' = "fields"
            /\ UNCHANGED errors
       ELSE /\ tpc' = "done"
            /\ errors' = Append(errors,
                 Error("Only LLM variants are supported. Use: impl<llm>", 0))
    /\ UNCHANGED <<is_llm, fields, adapters, fi, client, vprompt, ai, prev,
                   warnings, variant_properties>>
    /\ UNCHANGED exceptVariant

\* the errors the closure of for_each pushes for field i
FieldErrors(i) ==
    LET field == fields[i]
    IN  IF field.name = "client"
        THEN IF field.template_args
             THEN <<Error("Did you mean client instead of client<...>?", i)>>
             ELSE <<>>
        ELSE IF field.name = "prompt"
        THEN IF field.template_args
             THEN <<Error("Did you mean prompt instead of prompt<...>?", i)>>
             ELSE <<>>
        ELSE <<Error("Unknown field in impl<llm>", i)>>

\* lines 403-434: one turn of the for_each over the fields
VisitField ==
    /\ tpc = "fields"
    /\ fi < Len(fields)
    /\ LET field == fields[fi + 1]
       IN  /\ errors' = errors \o FieldErrors(fi + 1)
           /\ client' = IF field.name = "client" /\ field.value # None
                        THEN field.value ELSE client
           /\ vprompt' = IF field.name = "prompt" /\ field.value # None
                         THEN field.value ELSE vprompt
    /\ fi' = fi + 1
    /\ UNCHANGED <<is_llm, fields, adapters, tpc, ai, prev, warnings,
                   variant_properties>>
    /\ UNCHANGED exceptVariant

\* lines 436-444: the client is coerced to a string, or reported missing
CheckClient ==
    /\ tpc = "fields"
    /\ fi = Len(fields)
    /\ IF client # None
       THEN IF coerce_string(client)
            THEN UNCHANGED <<client, errors>>
            ELSE /\ client' = None
                 /\ errors' = Append(errors, Error("coerce::string", 0))
       ELSE /\ errors' = Append(errors,
                 Error("Missing client field in impl<llm>", 0))
            /\ UNCHANGED client
    /\ tpc' = "prompt"
    /\ UNCHANGED <<is_llm, fields, adapters, fi, vprompt, ai, prev, warnings,
                   variant_properties>>
    /\ UNCHANGED exceptVariant

\* lines 446-471: the prompt is validated, coerced, or reported missing
CheckPrompt ==
    /\ tpc = "prompt"
    /\ IF vprompt # None
       THEN IF as_raw_string_value(vprompt)
            THEN IF validate_prompt(vprompt)
                 THEN UNCHANGED <<vprompt, errors, warnings>>
                 ELSE /\ vprompt' = None
                      /\ errors' = Append(errors, Error("validate_prompt", 0))
                      /\ UNCHANGED warnings
            ELSE IF coerce_string(vprompt)
            THEN /\ warnings' = Append(warnings,
                      "To use comments and {#vars} use a block string.")
                 /\ UNCHANGED <<vprompt, errors>>
            ELSE /\ vprompt' = None
                 /\ errors' = Append(errors, Error("coerce::string", 0))
                 /\ UNCHANGED warnings
       ELSE /\ errors' = Append(errors,
                 Error("Missing prompt field in impl<llm>", 0))
            /\ UNCHANGED <<vprompt, warnings>>
    /\ tpc' = "adapters"
    /\ UNCHANGED <<is_llm, fields, adapters, fi, client, ai, prev,
                   variant_properties>>
    /\ UNCHANGED exceptVariant

\* lines 478-491: the adapter reads from a non-optional input
is_input(a) == a.from.name = "input" /\ ~a.from.optional

\* lines 493-506: the adapter writes to a non-optional output
is_output(a) == a.to.name = "output" /\ ~a.to.optional

\* lines 480-485 and 495-500: the errors for an optional input or output
ArityErrors(a, i) ==
    (IF a.from.name = "input" /\ a.from.optional
     THEN <<Error("The input adapter cannot be optional.", i)>> ELSE <<>>)
    \o (IF a.to.name = "output" /\ a.to.optional
        THEN <<Error("The output adapter cannot be optional.", i)>> ELSE <<>>)

\* lines 521-530 and 547-557: whether `impls` is Some
Impls(a) == as_array(a.converter) \/ coerce_raw_string(a.converter)

\* a variant of AdapterStep that keeps an accepted input adapter in the
\* place of the output adapter
AdapterStepStoreInput(p, i) ==
    LET a == adapters[i]
    IN  IF is_input(a) /\ ~is_output(a) /\ p[1] = <<>> /\ Impls(a)
        THEN [prev |-> <<<<i>>, <<i>>>>, errors |-> <<>>,
              warnings |-> <<"The input adapter is note yet supported.">>]
        ELSE [prev |-> p, errors |-> <<>>, warnings |-> <<>>]

\* lines 508-569: what the closure of the fold returns for adapter i and the
\* accumulator p, with the errors and warnings it pushes after ArityErrors
AdapterStep(p, i) ==
    LET a == adapters[i]
        coerce == IF Impls(a) THEN <<>> ELSE <<Error("coerce::raw_string", i)>>
    IN  IF is_input(a) /\ is_output(a)
        THEN [prev |-> p, warnings |-> <<>>, errors |->
               <<Error("The input and output adapters cannot be used together.", i)>>]
        ELSE IF is_input(a)
        THEN IF p[1] # <<>>
             THEN [prev |-> p, warnings |-> <<>>, errors |->
                    <<Error("The input adapter can only be used once.", i)>>]
             ELSE IF Impls(a)
             THEN [prev |-> <<<<i>>, p[2]>>, errors |-> <<>>, warnings |->
                    <<"The input adapter is note yet supported.">>]
             ELSE [prev |-> p, errors |-> coerce, warnings |-> <<>>]
        ELSE IF is_output(a)
        THEN IF p[2] # <<>>
             THEN [prev |-> p, warnings |-> <<>>, errors |->
                    <<Error("The output adapter can only be used once.", i)>>]
             ELSE IF Impls(a)
             THEN [prev |-> <<p[1], <<i>>>>, errors |-> <<>>, warnings |-> <<>>]
             ELSE [prev |-> p, errors |-> coerce, warnings |-> <<>>]
        ELSE [prev |-> p, warnings |-> <<>>, errors |->
               <<Error("The input or output adapter must be used.", i)>>]

\* lines 474-570: one turn of the fold over the adapters
FoldAdapter ==
    /\ tpc = "adapters"
    /\ ai < Len(adapters)
    /\ LET step == AdapterStep(prev, ai + 1)
       IN  /\ prev' = step.prev
           /\ errors' = errors \o ArityErrors(adapters[ai + 1], ai + 1) \o step.errors
           /\ warnings' = warnings \o step.warnings
    /\ ai' = ai + 1
    /\ UNCHANGED <<is_llm, fields, adapters, tpc, fi, client, vprompt,
                   variant_properties>>
    /\ UNCHANGED exceptVariant

\* lines 572-597: the properties are inserted if client and prompt are Some
InsertProperties ==
    /\ tpc = "adapters"
    /\ ai = Len(adapters)
    /\ variant_properties' =
         IF client # None /\ vprompt # None
         THEN <<[client |-> client, prompt |-> vprompt, output_adapter |-> prev[2]]>>
         ELSE variant_properties
    /\ tpc' = "done"
    /\ UNCHANGED <<is_llm, fields, adapters, fi, client, vprompt, ai, prev,
                   errors, warnings>>
    /\ UNCHANGED exceptVariant

NextVariant ==
    \/ CheckLlm
    \/ VisitField
    \/ CheckClient
    \/ CheckPrompt
    \/ FoldAdapter
    \/ InsertProperties

SpecVariant == InitVariant /\ [][NextVariant]_vars

---------------------------------------------------------------------------
(* Claims about visit_variant, checked under SpecVariant. *)

\* how many fields of the variant have the name n
CountFields(n) == Cardinality({i \in DOMAIN fields : fields[i].name = n})

\* the items that an error diagnostic points at
ErrorsAt == {errors[k].at : k \in DOMAIN errors}

\* C12: visit_variant reports an error for every LLM variant that does not
\* declare exactly one client field, exactly one prompt field and no other
\* field: a missing client, a missing prompt, a client or a prompt declared
\* more than once and a field of any other name each give an error.
C12_ExactlyOneClientAndPrompt ==
    (tpc = "done" /\ is_llm) =>
        \/ /\ CountFields("client") = 1
           /\ CountFields("prompt") = 1
           /\ Len(fields) = 2
        \/ errors # <<>>

\* the adapters that the fold has accepted
Accepted == {i \in DOMAIN adapters : <<i>> \in {prev[1], prev[2]}}

\* an input or output target of adapter a is optional
OptionalTarget(a) ==
    \/ a.from.name = "input" /\ a.from.optional
    \/ a.to.name = "output" /\ a.to.optional

\* C13: an adapter is accepted only if it targets exactly one of a
\* non-optional input source and a non-optional output destination, with at
\* most one input adapter and one output adapter per variant; an adapter that
\* targets both, one whose input or output target is optional, and a second
\* adapter for a side that has an accepted one each give an error and are
\* not recorded.
C13_AdaptersAccepted ==
    (tpc = "done" /\ is_llm) =>
        /\ \A i \in Accepted : is_input(adapters[i]) # is_output(adapters[i])
        /\ \A i \in DOMAIN adapters :
             LET a == adapters[i]
                 second == \E j \in Accepted :
                              /\ j < i
                              /\ is_input(a) = is_input(adapters[j])
                              /\ is_output(a) = is_output(adapters[j])
             IN  ((is_input(a) /\ is_output(a)) \/ OptionalTarget(a) \/ second)
                    => (i \in ErrorsAt /\ i \notin Accepted)

---------------------------------------------------------------------------
(* Expression::as_bool, as_string_value and resolve                        *)
(* (baml-core/src/ir/walker.rs). A value with several shapes is a pair of  *)
(* its tag and its payload; Ok(v) is <<"Ok", v>> and an error is           *)
(* <<"Err", message>>. Text is a sequence of characters. An integer is     *)
(* kept as its decimal digits, since an i64 is wider than the integers of  *)
(* the checker.                                                            *)

Digits == <<"0", "1", "2", "3", "4", "5", "6", "7", "8", "9">>

IsDigit(c) == \E i \in DOMAIN Digits : Digits[i] = c

AllDigits(s) == \A i \in DOMAIN s : IsDigit(s[i])

\* the value of the digit c
DigitValue(c) == (CHOOSE i \in DOMAIN Digits : Digits[i] = c) - 1

\* the text after its sign, if it has one
Unsigned(t) == IF t # <<>> /\ t[1] \in {"+", "-"} THEN Tail(t) ELSE t

Negative(t) == t # <<>> /\ t[1] = "-"

\* the digits s without their leading zeros: the decimal form of the number
StripZeros(s) ==
    LET nz == {i \in DOMAIN s : s[i] # "0"}
    IN  IF nz = {} THEN <<"0">> ELSE SubSeq(s, Min(nz), Len(s))

\* the digits s without their trailing zeros
StripTrailingZeros(s) ==
    LET nz == {i \in DOMAIN s : s[i] # "0"}
    IN  IF nz = {} THEN <<>> ELSE SubSeq(s, 1, Max(nz))

\* a <= b for decimal forms a and b
MagLe(a, b) ==
    \/ Len(a) < Len(b)
    \/ /\ Len(a) = Len(b)
       /\ \/ a = b
          \/ \E i \in DOMAIN a :
               /\ SubSeq(a, 1, i - 1) = SubSeq(b, 1, i - 1)
               /\ DigitValue(a[i]) < DigitValue(b[i])

\* i64::MAX = 9223372036854775807 and the magnitude of i64::MIN
I64Max == <<"9","2","2","3","3","7","2","0","3","6","8","5","4","7","7","5","8","0","7">>
I64MinMag == <<"9","2","2","3","3","7","2","0","3","6","8","5","4","7","7","5","8","0","8">>

\* str::parse::<i64>: an optional sign, then one digit or more, in range
parse_i64(t) ==
    LET body == Unsigned(t)
        mag == StripZeros(body)
    IN  IF body = <<>> \/ ~AllDigits(body) THEN <<>>
        ELSE IF Negative(t)
        THEN IF MagLe(mag, I64MinMag)
             THEN <<IF mag = <<"0">> THEN mag ELSE <<"-">> \o mag>>
             ELSE <<>>
        ELSE IF MagLe(mag, I64Max) THEN <<mag>> ELSE <<>>

\* str::parse::<f64> for text without exponent, "inf" or "nan": an optional
\* sign, then digits with at most one point and at least one digit. The
\* float is the decimal it was read from: sign, integer digits, fraction.
parse_f64(t) ==
    LET body == Unsigned(t)
        dots == {i \in DOMAIN body : body[i] = "."}
        dot == IF dots = {} THEN Len(body) + 1 ELSE Min(dots)
        int == SubSeq(body, 1, dot - 1)
        frac == SubSeq(body, dot + 1, Len(body))
    IN  IF /\ Cardinality(dots) <= 1
           /\ AllDigits(int) /\ AllDigits(frac)
           /\ Len(int) + Len(frac) >= 1
        THEN <<[neg |-> Negative(t), int |-> StripZeros(int),
                frac |-> StripTrailingZeros(frac)]>>
        ELSE <<>>

\* the characters of the text of a Numeric expression
TextChars == {"3", "5", "-", ".", "a"}

NumericTexts ==
    UNION {[1..n -> TextChars] : n \in 0..MaxText}
    \cup {I64Max, I64MinMag, <<"-">> \o I64MinMag, <<"-">> \o I64Max \o <<"0">>}

\* the names and values of the environment
EnvNames == {<<"K">>}
EnvValues == {<<>>, <<"v">>}

\* the environment snapshots
Envs == UNION {[S -> EnvValues] : S \in SUBSET EnvNames}

\* Expression and Identifier, as pairs of tag and payload
Bool(b)      == <<"Bool", b>>
String(s)    == <<"String", s>>
RawString(s) == <<"RawString", s>>
Numeric(n)   == <<"Numeric", n>>
List(l)      == <<"List", l>>
Map(m)       == <<"Map", m>>
ENV(s)       == <<"Identifier", <<"ENV", s>>>>
Ref(r)       == <<"Identifier", <<"Ref", r>>>>
Local(r)     == <<"Identifier", <<"Local", r>>>>
Primitive(t) == <<"Identifier", <<"Primitive", t>>>>

\* the identifiers true, false, null, x, the path a.b and the type int
LocalNames ==
    {<<"t","r","u","e">>, <<"f","a","l","s","e">>, <<"n","u","l","l">>, <<"x">>}

Atoms ==
    {Bool(b) : b \in BOOLEAN}
    \cup {String(<<"x">>), String(<<>>), RawString(<<"x">>)}
    \cup {Numeric(n) : n \in NumericTexts}
    \cup {ENV(s) : s \in EnvNames}
    \cup {Local(r) : r \in LocalNames}
    \cup {Ref(<<<<"a">>, <<"b">>>>), Primitive(<<"i","n","t">>)}

\* the elements of the List and Map expressions explored: atoms that resolve,
\* atoms that may fail, and a List nested in the List or Map
Elements ==
    {Bool(TRUE), String(<<"x">>), Numeric(<<"3">>), Numeric(<<"a">>), ENV(<<"K">>)}
    \cup {List(<<Numeric(<<"5">>)>>), List(<<Numeric(<<"a">>)>>)}

\* the keys of the Map expressions explored
Keys == {String(<<"x">>), String(<<"v">>), ENV(<<"K">>), Numeric(<<"3">>)}

Exprs ==
    Atoms
    \cup {List(l) : l \in UNION {[1..n -> Elements] : n \in 0..MaxElems}}
    \cup {Map(m) : m \in UNION {[1..n -> Keys \X Elements] : n \in 0..MaxElems}}

Ok(v)  == <<"Ok", v>>
Err(m) == <<"Err", m>>
IsOkResult(r) == r[1] = "Ok"

\* a variant of as_bool for which a variable set to "" is false
as_boolNonEmpty(e, env) ==
    IF e[1] = "Bool" THEN Ok(e[2])
    ELSE IF e[1] = "Identifier" /\ e[2][1] = "ENV"
    THEN Ok(e[2][2] \in DOMAIN env /\ env[e[2][2]] # <<>>)
    ELSE Err("Expected bool value")

\* lines 80-86
as_bool(e, env) ==
    IF e[1] = "Bool" THEN Ok(e[2])
    ELSE IF e[1] = "Identifier" /\ e[2][1] = "ENV"
    THEN Ok(e[2][2] \in DOMAIN env)
    ELSE Err("Expected bool value")

\* r.join(".")
RECURSIVE JoinPath(_)
JoinPath(r) ==
    IF r = <<>> THEN <<>>
    ELSE IF Len(r) = 1 THEN r[1]
    ELSE r[1] \o <<".">> \o JoinPath(Tail(r))

\* Identifier::name
name(idn) == IF idn[1] = "Ref" THEN JoinPath(idn[2]) ELSE idn[2]

\* a variant of as_string_value that falls back to the name of a variable
\* that is not set
as_string_valueFallback(e, env) ==
    IF e[1] \in {"String", "RawString"} THEN Ok(e[2])
    ELSE IF e[1] = "Identifier"
    THEN IF e[2][1] = "ENV" /\ e[2][2] \in DOMAIN env
         THEN Ok(env[e[2][2]])
         ELSE Ok(name(e[2]))
    ELSE Err("Expected string value")

\* lines 88-99
as_string_value(e, env) ==
    IF e[1] \in {"String", "RawString"} THEN Ok(e[2])
    ELSE IF e[1] = "Identifier" /\ e[2][1] = "ENV"
    THEN IF e[2][2] \in DOMAIN env
         THEN Ok(env[e[2][2]])
         ELSE Err("Environment variable not found")
    ELSE IF e[1] = "Identifier" THEN Ok(name(e[2]))
    ELSE Err("Expected string value")

\* BamlMap::insert: a map with unique keys that keeps the order of insertion;
\* the value of a key already present is replaced in place
BamlMapInsert(map, k, v) ==
    IF \E j \in DOMAIN map : map[j][1] = k
    THEN [j \in DOMAIN map |-> IF map[j][1] = k THEN <<k, v>> ELSE map[j]]
    ELSE Append(map, <<k, v>>)

\* lines 133-141, with the two parses tried in the other order
ResolveNumericFloatFirst(n) ==
    IF parse_f64(n) # <<>> THEN Ok(<<"Float", parse_f64(n)[1]>>)
    ELSE IF parse_i64(n) # <<>> THEN Ok(<<"Int", parse_i64(n)[1]>>)
    ELSE Err("Invalid numeric value")

\* lines 133-141
ResolveNumeric(n) ==
    IF parse_i64(n) # <<>> THEN Ok(<<"Int", parse_i64(n)[1]>>)
    ELSE IF parse_f64(n) # <<>> THEN Ok(<<"Float", parse_f64(n)[1]>>)
    ELSE Err("Invalid numeric value")

\* a variant of ResolveIdentifier for which a variable that is not set is
\* Null
ResolveIdentifierUnsetNull(idn, env) ==
    IF idn[1] = "ENV" /\ idn[2] \notin DOMAIN env THEN Ok(<<"Null", <<>>>>)
    ELSE IF idn[1] = "ENV" THEN Ok(<<"String", env[idn[2]]>>)
    ELSE Ok(<<"String", name(idn)>>)

\* lines 103-116
ResolveIdentifier(idn, env) ==
    IF idn[1] = "ENV"
    THEN IF idn[2] \in DOMAIN env
         THEN Ok(<<"String", env[idn[2]]>>)
         ELSE Err("Environment variable not found")
    ELSE IF idn[1] = "Ref" THEN Ok(<<"String", JoinPath(idn[2])>>)
    ELSE IF idn[1] = "Local"
    THEN IF idn[2] = <<"t","r","u","e">> THEN Ok(<<"Bool", TRUE>>)
         ELSE IF idn[2] = <<"f","a","l","s","e">> THEN Ok(<<"Bool", FALSE>>)
         ELSE IF idn[2] = <<"n","u","l","l">> THEN Ok(<<"Null", <<>>>>)
         ELSE Ok(<<"String", idn[2]>>)
    ELSE Ok(<<"String", idn[2]>>)

RECURSIVE resolve(_, _), ResolveListSkipping(_, _, _), ResolveList(_, _, _),
          ResolveMap(_, _, _)

\* a variant of ResolveList that leaves out the elements that fail
ResolveListSkipping(l, env, list) ==
    IF l = <<>> THEN Ok(<<"List", list>>)
    ELSE LET v == resolve(l[1], env)
         IN  IF IsOkResult(v)
             THEN ResolveListSkipping(Tail(l), env, Append(list, v[2]))
             ELSE ResolveListSkipping(Tail(l), env, list)

\* lines 125-131: the loop over the elements not yet visited, list being
\* the Vec built so far
ResolveList(l, env, list) ==
    IF l = <<>> THEN Ok(<<"List", list>>)
    ELSE LET v == resolve(l[1], env)
         IN  IF IsOkResult(v)
             THEN ResolveList(Tail(l), env, Append(list, v[2]))
             ELSE v

\* lines 118-124: the loop over the pairs not yet visited, map being the
\* BamlMap built so far
ResolveMap(m, env, map) ==
    IF m = <<>> THEN Ok(<<"Map", map>>)
    ELSE LET k == as_string_value(m[1][1], env)
         IN  IF ~IsOkResult(k) THEN k
             ELSE LET v == resolve(m[1][2], env)
                  IN  IF IsOkResult(v)
                      THEN ResolveMap(Tail(m), env, BamlMapInsert(map, k[2], v[2]))
                      ELSE v

\* lines 101-143
resolve(e, env) ==
    IF e[1] = "Identifier" THEN ResolveIdentifier(e[2], env)
    ELSE IF e[1] = "Bool" THEN Ok(<<"Bool", e[2]>>)
    ELSE IF e[1] = "Map" THEN ResolveMap(e[2], env, <<>>)
    ELSE IF e[1] = "List" THEN ResolveList(e[2], env, <<>>)
    ELSE IF e[1] \in {"RawString", "String"} THEN Ok(<<"String", e[2]>>)
    ELSE ResolveNumeric(e[2])

\* to_prompt, validate_file and visit_variant are not running
InitExpr ==
    /\ IdleTypes
    /\ IdlePrompt
    /\ IdleValidate
    /\ IdleVariant
    /\ IdleQuery
    /\ expr \in Exprs
    /\ env_values \in Envs
    /\ epc = "start"
    /\ ret = <<>>

AsBool ==
    /\ epc = "start"
    /\ epc' = "as_bool"
    /\ ret' = as_bool(expr, env_values)
    /\ UNCHANGED <<expr, env_values>>
    /\ UNCHANGED exceptExpr

AsStringValue ==
    /\ epc = "start"
    /\ epc' = "as_string_value"
    /\ ret' = as_string_value(expr, env_values)
    /\ UNCHANGED <<expr, env_values>>
    /\ UNCHANGED exceptExpr

Resolve ==
    /\ epc = "start"
    /\ epc' = "resolve"
    /\ ret' = resolve(expr, env_values)
    /\ UNCHANGED <<expr, env_values>>
    /\ UNCHANGED exceptExpr

NextExpr ==
    \/ AsBool
    \/ AsStringValue
    \/ Resolve

SpecExpr == InitExpr /\ [][NextExpr]_vars

---------------------------------------------------------------------------
(* Claims about the functions of Expression, checked under SpecExpr. *)

IsEnv(e) == e[1] = "Identifier" /\ e[2][1] = "ENV"

\* C14: as_bool returns the value of a Bool expression; for an ENV
\* identifier it returns true if and only if the name is a key of the
\* environment snapshot, whatever the value (the empty string too); for every
\* other expression it fails.
C14_AsBool ==
    epc = "as_bool" =>
        /\ expr[1] = "Bool" => ret = <<"Ok", expr[2]>>
        /\ IsEnv(expr) =>
             /\ ret[1] = "Ok"
             /\ ret[2] <=> (\E k \in DOMAIN env_values : k = expr[2][2])
        /\ (expr[1] # "Bool" /\ ~IsEnv(expr)) => ret[1] = "Err"

C14_Witness ==
    /\ epc = "as_bool"
    /\ expr = ENV(<<"K">>)
    /\ env_values = [k \in {<<"K">>} |-> <<>>]
    /\ ret = <<"Ok", TRUE>>

\* C15: as_string_value returns the text of a string or raw string literal;
\* for an ENV identifier the value of the snapshot if the name is present and
\* a variable-not-found error if it is absent; for any other identifier its
\* bare name, without error; for Numeric, Map and List expressions it fails.
C15_AsStringValue ==
    epc = "as_string_value" =>
        /\ expr[1] \in {"String", "RawString"} => ret = <<"Ok", expr[2]>>
        /\ IsEnv(expr) =>
             IF \E k \in DOMAIN env_values : k = expr[2][2]
             THEN ret = <<"Ok", env_values[expr[2][2]]>>
             ELSE ret = <<"Err", "Environment variable not found">>
        /\ (expr[1] = "Identifier" /\ expr[2][1] \in {"Local", "Primitive"})
             => ret = <<"Ok", expr[2][2]>>
        /\ expr = Ref(<<<<"a">>, <<"b">>>>) => ret = <<"Ok", <<"a", ".", "b">>>>
        /\ expr[1] \in {"Numeric", "Map", "List"} => ret[1] = "Err"

C15_Witness ==
    /\ epc = "as_string_value"
    /\ expr = ENV(<<"K">>)
    /\ env_values = <<>>
    /\ ret[1] = "Err"

\* the text is an optional sign and then one digit or more
IntegerText(t) == Unsigned(t) # <<>> /\ AllDigits(Unsigned(t))

\* C16: resolve of a Numeric expression yields Int when the text parses as
\* an integer, otherwise Float when the text parses as a floating-point
\* number, and fails when neither parse succeeds; text that parses as an
\* integer never yields Float. "3" is Int 3, "3.5" is Float 3.5, "-5" is
\* Int -5, "a" fails, and the text of an integer out of the range of i64
\* yields Float.
C16_NumericIntFirst ==
    (epc = "resolve" /\ expr[1] = "Numeric") =>
        LET t == expr[2]
        IN  /\ parse_i64(t) # <<>> => ret = <<"Ok", <<"Int", parse_i64(t)[1]>>>>
            /\ (parse_i64(t) = <<>> /\ parse_f64(t) # <<>>)
                 => ret = <<"Ok", <<"Float", parse_f64(t)[1]>>>>
            /\ (parse_i64(t) = <<>> /\ parse_f64(t) = <<>>) => ret[1] = "Err"
            /\ t = <<"3">> => ret = <<"Ok", <<"Int", <<"3">>>>>>
            /\ t = <<"-", "5">> => ret = <<"Ok", <<"Int", <<"-", "5">>>>>>
            /\ t = <<"3", ".", "5">> =>
                 ret = <<"Ok", <<"Float", [neg |-> FALSE, int |-> <<"3">>,
                                          frac |-> <<"5">>]>>>>
            /\ t = <<"a">> => ret[1] = "Err"
            /\ (IntegerText(t) /\ Len(t) <= MaxText) => (ret[1] = "Ok" /\ ret[2][1] = "Int")
            /\ t = I64MinMag => (ret[1] = "Ok" /\ ret[2][1] = "Float")

C16_Witness ==
    /\ epc = "resolve"
    /\ expr = Numeric(<<"3", ".", "5">>)
    /\ ret[1] = "Ok"
    /\ ret[2][1] = "Float"

\* the elements of the List or Map expression e: the elements of a List, the
\* values of a Map
ElementsOf(e) ==
    IF e[1] = "List" THEN e[2] ELSE [i \in DOMAIN e[2] |-> e[2][i][2]]

\* every key and every element of the List or Map expression e resolves
AllResolve(e) ==
    /\ \A i \in DOMAIN e[2] : IsOkResult(resolve(ElementsOf(e)[i], env_values))
    /\ e[1] = "Map" =>
         \A i \in DOMAIN e[2] : IsOkResult(as_string_value(e[2][i][1], env_values))

\* the text that the key of pair i of the Map expression e resolves to
KeyOf(e, i) == as_string_value(e[2][i][1], env_values)[2]

\* the value that element i of the List or Map expression e resolves to
ValueOf(e, i) == resolve(ElementsOf(e)[i], env_values)[2]

\* C17 as stated: a Map or List whose entries are the resolved elements, all
\* of them, in the order of the source expression.
C17_EveryElementInOrder ==
    (epc = "resolve" /\ expr[1] \in {"List", "Map"}) =>
        IF AllResolve(expr)
        THEN ret = <<"Ok", <<expr[1],
                 [i \in DOMAIN expr[2] |->
                    IF expr[1] = "List" THEN ValueOf(expr, i)
                    ELSE <<KeyOf(expr, i), ValueOf(expr, i)>>]>>>>
        ELSE ret[1] = "Err"

\* the pairs of the Map expression e whose key no earlier pair has
FirstOfKey(e) ==
    {i \in DOMAIN e[2] : \A j \in 1..(i - 1) : KeyOf(e, j) # KeyOf(e, i)}

\* the last pair of the Map expression e with the key of pair i
LastOfKey(e, i) == Max({j \in DOMAIN e[2] : KeyOf(e, j) = KeyOf(e, i)})

\* the n-th pair, in the order of the source, among FirstOfKey(e)
NthFirst(e, n) ==
    CHOOSE i \in FirstOfKey(e) : Cardinality({j \in FirstOfKey(e) : j <= i}) = n

\* C17, amended: resolve of a List yields the resolved elements in the order
\* of the source; resolve of a Map yields one entry per distinct resolved
\* key, in the order in which the keys first occur in the source, each with
\* the resolved value of the last pair that has the key; if the resolution
\* of any key or element fails the whole resolution fails and no partial
\* value is returned.
C17_ElementsInOrder ==
    (epc = "resolve" /\ expr[1] \in {"List", "Map"}) =>
        IF AllResolve(expr)
        THEN IF expr[1] = "List"
             THEN ret = <<"Ok", <<"List", [i \in DOMAIN expr[2] |-> ValueOf(expr, i)]>>>>
             ELSE ret = <<"Ok", <<"Map",
                      [n \in 1..Cardinality(FirstOfKey(expr)) |->
                         LET i == NthFirst(expr, n)
                         IN  <<KeyOf(expr, i), ValueOf(expr, LastOfKey(expr, i))>>]>>>>
        ELSE ret[1] = "Err"

C17_Witness ==
    /\ epc = "resolve"
    /\ expr = Map(<<<<String(<<"v">>), Numeric(<<"3">>)>>,
                    <<ENV(<<"K">>), List(<<Numeric(<<"5">>)>>)>>>>)
    /\ env_values = [k \in {<<"K">>} |-> <<"v">>]
    /\ ret = <<"Ok", <<"Map", <<<<<<"v">>, <<"List", <<<<"Int", <<"5">>>>>>>>>>>>>>>>

---------------------------------------------------------------------------
(* Queries on a schema: find_class, find_enum and find_template_string of  *)
(* the IntermediateRepr (baml-core/src/ir/ir_helpers/mod.rs),              *)
(* find_retry_policy, find_printer and walk of the ParserDatabase          *)
(* (parser-database/src/walkers/mod.rs), the accessors of                  *)
(* ConfigurationWalker (walkers/configuration.rs) and build_target_type    *)
(* (baml/src/lib.rs). A declaration is identified by its place in tops.    *)

TopNames == {"A", "B", "C"}

\* the kinds of ast::Top, a Config being one of its three kinds
ConfigKinds == {"retry_policy", "printer", "test"}
TopKinds == {"enum", "class", "variant", "template_string"} \cup ConfigKinds

\* the schemas: the names of the declarations are distinct
Schemas ==
    {s \in UNION {[1..n -> [kind : TopKinds, name : TopNames]] : n \in 0..MaxTops} :
        \A i, j \in DOMAIN s : s[i].name = s[j].name => i = j}

\* ast.iter_tops().filter_map(as_<kind>_id): the declarations of kind k, in
\* the order of the schema
iter_tops(k) == SelectSeq([i \in DOMAIN tops |-> i], LAMBDA i : tops[i].kind = k)

\* walkers/mod.rs lines 134-164, and the walk_* of the IntermediateRepr
walk_enums            == iter_tops("enum")
walk_classes          == iter_tops("class")
walk_template_strings == iter_tops("template_string")

\* map(|e| e.name()).collect()
NamesOf(ws) == [i \in DOMAIN ws |-> tops[ws[i]].name]

\* Iterator::find(|e| e.name() == n)
FindByName(ws, n) ==
    LET hits == {i \in DOMAIN ws : tops[ws[i]].name = n}
    IN  IF hits = {} THEN <<>> ELSE <<ws[Min(hits)]>>

\* Iterator::next
First(ws) == IF ws = <<>> THEN <<>> ELSE <<ws[1]>>

\* error_not_found!: the error names the kind, the name asked for and the
\* candidates it was given
error_not_found(k, n, candidates) ==
    <<"Err", [kind |-> k, needle |-> n, candidates |-> candidates]>>

\* a variant of find_class whose error suggests one name only
find_classOneSuggestion(n) ==
    IF FindByName(walk_classes, n) # <<>> THEN Ok(FindByName(walk_classes, n)[1])
    ELSE LET names == NamesOf(walk_classes)
         IN  error_not_found("class", n, IF names = <<>> THEN names ELSE <<names[1]>>)

\* ir_helpers/mod.rs lines 36-45
find_class(n) ==
    IF FindByName(walk_classes, n) # <<>> THEN Ok(FindByName(walk_classes, n)[1])
    ELSE error_not_found("class", n, NamesOf(walk_classes))

\* ir_helpers/mod.rs lines 25-34
find_enum(n) ==
    IF FindByName(walk_enums, n) # <<>> THEN Ok(FindByName(walk_enums, n)[1])
    ELSE error_not_found("enum", n, NamesOf(walk_enums))

\* ir_helpers/mod.rs lines 48-63
find_template_string(n) ==
    IF FindByName(walk_template_strings, n) # <<>>
    THEN Ok(FindByName(walk_template_strings, n)[1])
    ELSE error_not_found("template string", n, NamesOf(walk_template_strings))

\* walkers/mod.rs lines 60-64: interner.lookup(name), then names.tops.get
find_top_by_str(n) ==
    LET hits == {i \in DOMAIN tops : tops[i].name = n}
    IN  IF hits = {} THEN <<>> ELSE <<Min(hits)>>

\* TopId::as_retry_policy_id and TopId::as_printer_id
as_config_id(t, k) == IF t # <<>> /\ tops[t[1]].kind = k THEN t ELSE <<>>

\* ParserDatabase::walk((id, tag))
walk(id, tag) == <<id, tag>>

\* walkers/mod.rs lines 98-104
find_retry_policy(n) ==
    LET id == as_config_id(find_top_by_str(n), "retry_policy")
    IN  IF id = <<>> THEN <<>> ELSE <<walk(id[1], "retry_policy")>>

\* a variant of find_printer that tags its walker as find_retry_policy does
find_printerRetryTag(n) ==
    LET id == as_config_id(find_top_by_str(n), "printer")
    IN  IF id = <<>> THEN <<>> ELSE <<walk(id[1], "retry_policy")>>

\* walkers/mod.rs lines 107-113
find_printer(n) ==
    LET id == as_config_id(find_top_by_str(n), "printer")
    IN  IF id = <<>> THEN <<>> ELSE <<walk(id[1], "printer")>>

Panic(m) == <<"Panic", m>>

\* configuration.rs lines 15-30: assert!(self.id.1 == tag), then the entry
\* of the table of that kind, which holds the declarations of the kind
Accessor(w, tag) ==
    IF w[2] # tag THEN Panic("assertion failed")
    ELSE IF tops[w[1]].kind = tag THEN Ok(w[1])
    ELSE Panic("key not found")

\* walkers/mod.rs lines 67-76
find_type_by_str(n) ==
    LET t == find_top_by_str(n)
    IN  IF t # <<>> /\ tops[t[1]].kind \in {"class", "enum"} THEN t ELSE <<>>

\* FieldType::Class(name) or FieldType::Enum(name) of declaration i
TargetOf(i) ==
    IF tops[i].kind = "class" THEN <<"Class", tops[i].name>>
    ELSE <<"Enum", tops[i].name>>

\* a variant of build_target_type that prefers the first enum
build_target_typeEnumFirst(target_name) ==
    IF target_name # None
    THEN IF find_type_by_str(target_name) = <<>>
         THEN Panic("unwrap on None")
         ELSE Ok(TargetOf(find_type_by_str(target_name)[1]))
    ELSE LET first_class == First(walk_classes)
             first_enum == First(walk_enums)
         IN  IF first_class = <<>> /\ first_enum = <<>>
             THEN Err("No BAML class or enum found in the schema")
             ELSE IF first_enum # <<>> THEN Ok(TargetOf(first_enum[1]))
             ELSE Ok(TargetOf(first_class[1]))

\* baml/src/lib.rs lines 108-134
build_target_type(target_name) ==
    IF target_name # None
    THEN IF find_type_by_str(target_name) = <<>>
         THEN Panic("unwrap on None")
         ELSE Ok(TargetOf(find_type_by_str(target_name)[1]))
    ELSE LET first_class == First(walk_classes)
             first_enum == First(walk_enums)
         IN  IF first_class = <<>> /\ first_enum = <<>>
             THEN Err("No BAML class or enum found in the schema")
             ELSE IF first_class # <<>> THEN Ok(TargetOf(first_class[1]))
             ELSE Ok(TargetOf(first_enum[1]))

\* the diagnostics a validated schema may hold: errors and warnings
DiagnosticsLists ==
    UNION {[1..n -> {PassDiag("validate"), [file |-> 0, pass |-> "validate", errors |-> FALSE]}] :
             n \in 0..MaxDiags}

\* Diagnostics::to_pretty_string: one formatted report of all diagnostics
to_pretty_string(d) == <<"report", d>>

\* baml/src/lib.rs lines 136-195: OutputFormatContent::new(enums, classes,
\* target), the enums and the classes being those of the schema, in order
build_output_format(target) ==
    [enums |-> NamesOf(walk_enums), classes |-> NamesOf(walk_classes), target |-> target]

\* a variant of try_from_schema that does not look at the diagnostics
try_from_schemaUnchecked(target_name) ==
    LET target == build_target_type(target_name)
    IN  IF ~IsOkResult(target)
        THEN [ret |-> target, steps |-> <<"build_target_type">>]
        ELSE [ret |-> Ok([format |-> build_output_format(target[2]), target |-> target[2]]),
              steps |-> <<"build_target_type", "build_output_format">>]

\* baml/src/lib.rs lines 62-79: the Result returned, a panic being the value
\* Panic, and the steps taken after validate
try_from_schema(target_name) ==
    IF has_errors(schema_diagnostics)
    THEN [ret |-> Err(to_pretty_string(schema_diagnostics)), steps |-> <<>>]
    ELSE LET target == build_target_type(target_name)
         IN  IF ~IsOkResult(target)
             THEN [ret |-> target, steps |-> <<"build_target_type">>]
             ELSE [ret |-> Ok([format |-> build_output_format(target[2]),
                               target |-> target[2]]),
                   steps |-> <<"build_target_type", "build_output_format">>]

\* python_interface.rs lines 7-11: the PyErr made of the formatted error
from_anyhow(err) == <<"LaminarBamlError", err>>

\* Result::map_err(LaminarBamlError::from_anyhow); a panic is not mapped
map_err(r) == IF r[1] = "Err" THEN Err(from_anyhow(r[2])) ELSE r

InitQuery ==
    /\ IdleTypes
    /\ IdlePrompt
    /\ IdleValidate
    /\ IdleVariant
    /\ IdleExpr
    /\ tops \in Schemas
    /\ qpc = "start"
    /\ calls = <<>>
    /\ arg = None
    /\ walker = <<>>
    /\ answer = <<>>
    /\ schema_diagnostics \in DiagnosticsLists
    /\ steps = <<>>

\* a call that returns a Result: f is its name, n its argument, r the Result
Returns(f, n, r) ==
    /\ qpc = "start"
    /\ qpc' = "done"
    /\ calls' = Append(calls, f)
    /\ arg' = n
    /\ answer' = r
    /\ UNCHANGED <<tops, walker, schema_diagnostics, steps>>
    /\ UNCHANGED exceptQuery

FindClass == \E n \in TopNames : Returns("find_class", n, find_class(n))

FindEnum == \E n \in TopNames : Returns("find_enum", n, find_enum(n))

FindTemplateString ==
    \E n \in TopNames : Returns("find_template_string", n, find_template_string(n))

BuildTargetType ==
    \E n \in TopNames \cup {None} :
        Returns("build_target_type", n, build_target_type(n))

\* baml/src/lib.rs lines 62-79
TryFromSchema ==
    \E n \in TopNames \cup {None} :
        LET r == try_from_schema(n)
        IN  /\ qpc = "start"
            /\ qpc' = "done"
            /\ calls' = Append(calls, "try_from_schema")
            /\ arg' = n
            /\ answer' = r.ret
            /\ steps' = r.steps
            /\ UNCHANGED <<tops, walker, schema_diagnostics>>
            /\ UNCHANGED exceptQuery

\* a function of the Python interface: try_from_schema()?, then the method
\* step of the context, which the engine behind it lets succeed or fail
Interface(f, step) ==
    \E n \in TopNames \cup {None}, ok \in BOOLEAN :
        LET r == try_from_schema(n)
        IN  /\ qpc = "start"
            /\ qpc' = "done"
            /\ calls' = Append(calls, f)
            /\ arg' = n
            /\ IF ~IsOkResult(r.ret)
               THEN /\ answer' = map_err(r.ret)
                    /\ steps' = r.steps
               ELSE /\ answer' = map_err(IF ok THEN Ok(<<step, r.ret[2]>>)
                                               ELSE Err(<<step, "failed">>))
                    /\ steps' = Append(r.steps, step)
            /\ UNCHANGED <<tops, walker, schema_diagnostics>>
            /\ UNCHANGED exceptQuery

\* python_interface.rs lines 13-24
RenderPrompt == Interface("render_prompt", "render")

\* python_interface.rs lines 26-38
ValidateResult == Interface("validate_result", "from_str")

\* a call that returns an Option of a ConfigurationWalker
ReturnsWalker(f, n, w) ==
    /\ qpc = "start"
    /\ qpc' = IF w = <<>> THEN "done" ELSE "walker"
    /\ calls' = Append(calls, f)
    /\ arg' = n
    /\ walker' = w
    /\ UNCHANGED <<tops, answer, schema_diagnostics, steps>>
    /\ UNCHANGED exceptQuery

FindRetryPolicy ==
    \E n \in TopNames : ReturnsWalker("find_retry_policy", n, find_retry_policy(n))

FindPrinter ==
    \E n \in TopNames : ReturnsWalker("find_printer", n, find_printer(n))

\* db.walk((id, tag)) with the id of a Config and any tag
Walk ==
    \E i \in DOMAIN tops, tag \in ConfigKinds :
        /\ tops[i].kind \in ConfigKinds
        /\ ReturnsWalker("walk", None, <<walk(i, tag)>>)

\* an accessor of the ConfigurationWalker held: f is its name, tag its kind
Access(f, tag) ==
    /\ qpc = "walker"
    /\ qpc' = "done"
    /\ calls' = Append(calls, f)
    /\ answer' = Accessor(walker[1], tag)
    /\ UNCHANGED <<tops, arg, walker, schema_diagnostics, steps>>
    /\ UNCHANGED exceptQuery

\* configuration.rs lines 15-18
RetryPolicy == Access("retry_policy", "retry_policy")

\* configuration.rs lines 21-24
Printer == Access("printer", "printer")

\* configuration.rs lines 27-30
TestCase == Access("test_case", "test")

NextQuery ==
    \/ FindClass
    \/ FindEnum
    \/ FindTemplateString
    \/ BuildTargetType
    \/ TryFromSchema
    \/ RenderPrompt
    \/ ValidateResult
    \/ FindRetryPolicy
    \/ FindPrinter
    \/ Walk
    \/ RetryPolicy
    \/ Printer
    \/ TestCase

SpecQuery == InitQuery /\ [][NextQuery]_vars

---------------------------------------------------------------------------
(* Claims about the queries on a schema, checked under SpecQuery. *)

\* the declarations of kind k
Declared(k) == {i \in DOMAIN tops : tops[i].kind = k}

\* the kind of declaration that the find function f looks for
KindFound(f) ==
    CASE f = "find_class" -> "class"
      [] f = "find_enum" -> "enum"
      [] f = "find_template_string" -> "template_string"

TagOf(f) ==
    CASE f = "retry_policy" -> "retry_policy"
      [] f = "printer" -> "printer"
      [] f = "test_case" -> "test"

\* C19: retry_policy(), printer() or test_case() on a ConfigurationWalker
\* whose kind tag is not the matching one fails with an assertion failure and
\* returns no value; a walker that find_retry_policy returned passes the
\* check of retry_policy() and one that find_printer returned passes the
\* check of printer().
C19_WrongKindAccessorPanics ==
    (qpc = "done" /\ Len(calls) = 2) =>
        /\ walker[1][2] # TagOf(calls[2]) => answer = <<"Panic", "assertion failed">>
        /\ calls = <<"find_retry_policy", "retry_policy">> => answer[1] = "Ok"
        /\ calls = <<"find_printer", "printer">> => answer[1] = "Ok"

C19_Witness ==
    /\ qpc = "done"
    /\ calls = <<"find_printer", "retry_policy">>
    /\ answer[1] = "Panic"

\* C20: with no target name build_target_type selects the first declared
\* class if the schema declares a class, otherwise the first declared enum,
\* and fails with an error if the schema declares neither.
C20_DefaultTarget ==
    (qpc = "done" /\ calls = <<"build_target_type">> /\ arg = None) =>
        IF Declared("class") # {}
        THEN answer = <<"Ok", <<"Class", tops[Min(Declared("class"))].name>>>>
        ELSE IF Declared("enum") # {}
        THEN answer = <<"Ok", <<"Enum", tops[Min(Declared("enum"))].name>>>>
        ELSE answer[1] = "Err"

C20_Witness ==
    /\ qpc = "done"
    /\ calls = <<"build_target_type">>
    /\ arg = None
    /\ tops = <<[kind |-> "enum", name |-> "A"], [kind |-> "class", name |-> "B"]>>
    /\ answer = <<"Ok", <<"Class", "B">>>>

---------------------------------------------------------------------------
(* Claims that relate as_bool, as_string_value and resolve, checked under  *)
(* SpecExpr.                                                               *)

\* what the call made returned is what the function returns for the
\* expression and the environment of the state
CallReturned ==
    /\ epc = "as_bool" => ret = as_bool(expr, env_values)
    /\ epc = "as_string_value" => ret = as_string_value(expr, env_values)
    /\ epc = "resolve" => ret = resolve(expr, env_values)

\* C29: for every expression and environment, if as_string_value succeeds
\* then resolve succeeds; for an ENV identifier as_bool returns true exactly
\* when as_string_value succeeds, which is exactly when resolve succeeds, and
\* resolve then yields the String of the value that as_string_value returns.
C29_StringThenResolve ==
    epc \in {"as_bool", "as_string_value", "resolve"} =>
        LET b == as_bool(expr, env_values)
            s == as_string_value(expr, env_values)
            r == resolve(expr, env_values)
        IN  /\ CallReturned
            /\ IsOkResult(s) => IsOkResult(r)
            /\ IsEnv(expr) =>
                 /\ IsOkResult(b)
                 /\ b[2] <=> IsOkResult(s)
                 /\ IsOkResult(s) <=> IsOkResult(r)
                 /\ IsOkResult(r) => r = Ok(<<"String", s[2]>>)

C29_Witness ==
    /\ epc = "resolve"
    /\ expr = ENV(<<"K">>)
    /\ env_values = [k \in {<<"K">>} |-> <<>>]
    /\ ret = Ok(<<"String", <<>>>>)
    /\ as_bool(expr, env_values) = Ok(TRUE)

---------------------------------------------------------------------------
(* Claims about the entry that visit_variant records, checked under        *)
(* SpecVariant.                                                            *)

\* the value of the last field named n that holds a value, as an Option
LastValue(n) ==
    LET is == {i \in DOMAIN fields : fields[i].name = n /\ fields[i].value # None}
    IN  IF is = {} THEN <<>> ELSE <<fields[Max(is)].value>>

\* the client of the variant resolves to a string
ClientResolves == LastValue("client") # <<>> /\ coerce_string(LastValue("client")[1])

\* the prompt of the variant resolves to a string: a block string that
\* validate_prompt accepts, or a plain string
PromptResolves ==
    /\ LastValue("prompt") # <<>>
    /\ IF as_raw_string_value(LastValue("prompt")[1])
       THEN validate_prompt(LastValue("prompt")[1])
       ELSE coerce_string(LastValue("prompt")[1])

\* C28: visit_variant records a VariantProperties entry exactly when the
\* variant is an LLM variant and both its client and its prompt resolved to
\* strings; a variant that is not an LLM variant yields exactly one error and
\* no entry; an error of an adapter alone does not prevent the entry; an
\* accepted input adapter is never stored.
C28_EntryRecorded ==
    tpc = "done" =>
        /\ variant_properties # <<>> <=> (is_llm /\ ClientResolves /\ PromptResolves)
        /\ ~is_llm => (Len(errors) = 1 /\ variant_properties = <<>>)
        /\ variant_properties # <<>> =>
             /\ DOMAIN variant_properties[1] = {"client", "prompt", "output_adapter"}
             /\ variant_properties[1].client = LastValue("client")[1]
             /\ variant_properties[1].prompt = LastValue("prompt")[1]
             /\ \A i \in Range(variant_properties[1].output_adapter) :
                   is_output(adapters[i]) /\ ~is_input(adapters[i])

C28_Witness ==
    /\ tpc = "done"
    /\ variant_properties # <<>>
    /\ prev[1] = <<1>>
    /\ variant_properties[1].output_adapter = <<>>
    /\ Len(adapters) = 2
    /\ errors # <<>>

---------------------------------------------------------------------------
(* to_prompt on tables of two printer blocks, the text of one of which may *)
(* hold the key of the other: the values of replacers.1 are any String.    *)

\* the printer blocks of these tables
TwoPrinters == {"p", "q"}

\* the text of a printer block: plain text or, for p, the key of q
PrinterTexts(k) == IF k = "p" THEN {<<"y">>, key("q")} ELSE {<<"z">>}

PrinterTables ==
    UNION {{t \in [S -> {<<"y">>, <<"z">>, key("q")}] : \A k \in S : t[k] \in PrinterTexts(k)} :
             S \in SUBSET TwoPrinters}

\* the templates made of a blank and of the keys of the markers
MarkerChunks == {<<" ">>, key("a"), key("b"), key("p"), key("q"), key("s")}
MarkerTemplates ==
    {Concat(cs) : cs \in UNION {[1..n -> MarkerChunks] : n \in 0..MaxChunks}}

InitTables ==
    /\ IdleTypes
    /\ IdleValidate
    /\ IdleVariant
    /\ IdleExpr
    /\ IdleQuery
    /\ template \in MarkerTemplates
    /\ input \in InputTables
    /\ output \in PrinterTables
    /\ chats \in {<<>>, <<"s">>}
    /\ ppc = "inputs"
    /\ prompt = <<>>
    /\ used_inputs = <<>>
    /\ last_idx = 0
    /\ parts = <<>>
    /\ ci = 0
    /\ result = NoResult

SpecTables == InitTables /\ [][NextPrompt]_vars

\* C27: the result of to_prompt is a function of the template and of the
\* replacement tables only: the text, and so the parts, and the list of
\* consumed inputs are the same for every iteration order of the map of the
\* input markers and of the map of the printer blocks.
C27_OrderIndependent ==
    ppc \in {"string", "chats", "collect", "done", "panic"} =>
        \A io \in Orders(DOMAIN input), oo \in Orders(DOMAIN output) :
            LET acc == FoldInput([prompt |-> template, used |-> <<>>], io)
            IN  /\ prompt = FoldOutput(acc.prompt, oo)
                /\ used_inputs = SortUsed(acc.used)

---------------------------------------------------------------------------
(* Claims about the search for the chat-role markers, checked under        *)
(* SpecPrompt.                                                             *)

\* the parts located so far: each holds the key of its marker, the starts
\* increase strictly and the ranges of the keys do not overlap
PartsApart ==
    ppc = "chats" =>
        /\ \A i \in DOMAIN parts :
             /\ parts[i].end <= Len(prompt)
             /\ parts[i].end = parts[i].start + Len(key(parts[i].chat))
             /\ Slice(prompt, parts[i].start, parts[i].end) = key(parts[i].chat)
        /\ \A i, j \in DOMAIN parts :
             i < j => (parts[i].start < parts[j].start /\ parts[i].end <= parts[j].start)
        /\ last_idx = IF parts = <<>> THEN 0 ELSE parts[Len(parts)].end

\* a step of the loop over the markers: a marker whose key occurs at or
\* after last_idx is located at its first such occurrence, any other is
\* skipped and leaves the parts as they are
SearchedAfterLast ==
    (ppc = "chats" /\ ci' = ci + 1) =>
        LET k    == key(chats[ci + 1])
            from == {i \in last_idx..(Len(prompt) - Len(k)) : MatchAt(prompt, k, i)}
        IN  IF from = {}
            THEN parts' = parts /\ last_idx' = last_idx /\ ppc' = "chats"
            ELSE /\ Len(parts') = Len(parts) + 1
                 /\ SubSeq(parts', 1, Len(parts)) = parts
                 /\ parts'[Len(parts')].chat = chats[ci + 1]
                 /\ parts'[Len(parts')].start = Min(from)

\* to_prompt fails in the chat case only when no marker was located, and
\* the parts of the result belong to located markers or to no marker
SkippedOwnNothing ==
    /\ (ppc = "panic") => parts = <<>>
    /\ (ppc = "done" /\ result.kind = "Chat") =>
         \A i \in DOMAIN result.parts :
            \E j \in DOMAIN parts : result.parts[i][1] = parts[j].chat

\* C26: in the chat case of to_prompt each chat-role marker is searched only
\* in the text after the end of the marker located before it, so the starts
\* of the located markers increase strictly and the ranges of their keys do
\* not overlap; a declared marker whose key does not occur after that point
\* is skipped without error and owns no part, as long as one marker is
\* located.
C26_MarkersInOrder ==
    [](PartsApart /\ SkippedOwnNothing) /\ [][SearchedAfterLast]_vars

C26_Witness ==
    /\ ppc = "done"
    /\ result.kind = "Chat"
    /\ chats = <<"u", "s">>
    /\ prompt = key("s") \o key("u") \o key("s")
    /\ Len(parts) = 3
    /\ parts[2].start = 3
    /\ parts[3].start = 6

---------------------------------------------------------------------------
(* Claims about the order of the stages of validate_file, checked under    *)
(* Spec.                                                                   *)

\* the stages after the parallel stage, the validation pipeline being its
\* three passes, in the order of validate_file
StageOrder == <<"db_validate", "enums", "classes", "cycle", "finalize">>

\* C24: validate_file runs its stages in the fixed order parallel parse and
\* merge, db.validate, validation pipeline, finalize; it starts a stage only
\* if the diagnostics hold no error after every earlier stage, so finalize
\* runs only when every earlier stage was free of errors, and a result
\* without error diagnostics has passed through all four stages.
C24_StagesInOrder ==
    /\ mpc # "parallel" => StageEnded
    /\ Len(ran) <= Len(StageOrder) /\ ran = SubSeq(StageOrder, 1, Len(ran))
    /\ mpc \in {"db_validate", "enums", "finalize"} => ~has_errors(diagnostics)
    /\ (mpc = "returned" /\ ~has_errors(diagnostics)) => ran = StageOrder

C24_Witness ==
    /\ mpc = "returned"
    /\ ~has_errors(diagnostics)
    /\ Len(diagnostics) = NumFiles
    /\ ran = StageOrder

\* validate_file with the scheduling of its workers: par_iter runs every
\* closure on a thread of the pool, and a thread that can take a step
\* eventually takes it
SpecFair == Spec /\ \A f \in Files : WF_vars(Worker(f))

\* the locks are taken in one order, and a worker of a failed parse takes
\* the lock of the diagnostics only; a worker that has not ended can step
\* or waits for a lock whose holder can step
LockOrder ==
    /\ \A f \in Files :
         /\ db_lock = f => diag_lock = f
         /\ wpc[f] = "lock_db" => diag_lock = f
         /\ ~IsOk(parsed[f]) =>
              (db_lock # f /\ wpc[f] \notin {"lock_db", "add_ast", "unlock_db"})
    /\ ~StageEnded => \E f \in Files : ENABLED Worker(f)

\* every worker has ended and no lock is held
AllReleased == StageEnded /\ diag_lock = Free /\ db_lock = Free

\* C25: every worker that takes both locks takes the lock of the diagnostics
\* before the lock of the Database, and the worker of a failed parse takes the
\* lock of the diagnostics only; no interleaving of the workers deadlocks,
\* and every worker eventually releases its locks and terminates.
C25_NoDeadlock == []LockOrder /\ <>[]AllReleased

C25_Witness ==
    /\ AllReleased
    /\ \E f, g \in Files : ~IsOk(parsed[f]) /\ IsOk(parsed[g])
    /\ Len(db) >= 1
    /\ Len(diagnostics) = NumFiles

---------------------------------------------------------------------------
(* Claims about try_from_schema, checked under SpecQuery. *)

\* the calls that build a BamlContext from a schema string
ContextCalls == {"try_from_schema", "render_prompt", "validate_result"}

\* C21: try_from_schema, and so render_prompt and validate_result, return a
\* single failure that carries the formatted report of the diagnostics
\* whenever the validated schema holds at least one error: no target is
\* selected, no output format is built and no result is coerced.
C21_ErrorsRefuse ==
    (qpc = "done" /\ calls[1] \in ContextCalls /\ has_errors(schema_diagnostics)) =>
        /\ steps = <<>>
        /\ answer[1] = "Err"
        /\ answer = IF calls[1] = "try_from_schema"
                    THEN Err(to_pretty_string(schema_diagnostics))
                    ELSE Err(from_anyhow(to_pretty_string(schema_diagnostics)))

C21_Witness ==
    /\ qpc = "done"
    /\ calls = <<"validate_result">>
    /\ Len(schema_diagnostics) = 2
    /\ ~schema_diagnostics[1].errors
    /\ schema_diagnostics[2].errors
    /\ Declared("class") # {}
    /\ answer[1] = "Err"

---------------------------------------------------------------------------
(* resolve_types with visit_class (parser-database/src/types/mod.rs) and   *)
(* to_raw_field_type (parser-database/src/walkers/mod.rs).                 *)
(* An ast FieldType is <<node, arity, payload>>, the arity of a List or a  *)
(* Dictionary, which hold none, being "none"; an Identifier is             *)
(* <<kind, name>>; a baml_types::FieldType is <<tag, payload>>.            *)

FtIdentifier(arity, idn) == <<"Identifier", arity, idn>>
FtList(inner, dims)      == <<"List", "none", <<inner, dims>>>>
FtTuple(arity, items)    == <<"Tuple", arity, items>>
FtUnion(arity, items)    == <<"Union", arity, items>>
FtDictionary(k, v)       == <<"Dictionary", "none", <<k, v>>>>

\* FieldArity::is_optional
is_optional(arity) == arity = "optional"

\* the identifiers of the field types: the names A and B may be declared,
\* a.B is a path, int a primitive, K a variable of the environment
TypeIdns ==
    {<<"Local", "A">>, <<"Local", "B">>, <<"Ref", "a.B">>, <<"Primitive", "int">>,
     <<"ENV", "K">>, <<"String", "s">>, <<"Invalid", "x">>}

\* the field types that are one identifier
LeafTypes ==
    {FtIdentifier("required", idn) : idn \in TypeIdns}
    \cup {FtIdentifier("optional", <<"Local", "A">>)}

\* the composite field types whose inner type is t
Wraps(t) ==
    {FtList(t, 1), FtList(t, 2),
     FtTuple("required", <<t>>),
     FtTuple("optional", <<t, FtIdentifier("required", <<"Local", "B">>)>>),
     FtUnion("optional", <<t>>),
     FtUnion("required", <<FtIdentifier("optional", <<"Primitive", "int">>), t>>),
     FtDictionary(FtIdentifier("required", <<"Primitive", "string">>), t)}

\* the field types nested at most d deep
RECURSIVE FieldTypesTo(_)
FieldTypesTo(d) ==
    IF d = 0 THEN LeafTypes
    ELSE LeafTypes \cup UNION {Wraps(t) : t \in FieldTypesTo(d - 1)}

FieldTypes == FieldTypesTo(MaxDepth)

\* class.iter_fields(): a class of one field of any type, or of up to
\* MaxClassFields fields that are identifiers
ClassFieldLists ==
    {<<t>> : t \in FieldTypes}
    \cup UNION {[1..n -> LeafTypes] : n \in 0..MaxClassFields}

\* the fields of a class that is not the first class of its schema: none,
\* or one identifier
LaterFieldLists == {<<>>} \cup {<<t>> : t \in LeafTypes}

\* the schemas that the types are resolved in
TypeSchemas ==
    {s \in Schemas : \A i \in DOMAIN s :
        s[i].kind \in {"class", "enum", "variant"} /\ s[i].name \in {"A", "B"}}

\* the concatenation of the sequences of a sequence
RECURSIVE Flatten(_)
Flatten(ss) == IF ss = <<>> THEN <<>> ELSE Head(ss) \o Flatten(Tail(ss))

\* FieldType::flat_idns: the identifiers of a field type, of every depth
RECURSIVE flat_idns(_)
flat_idns(t) ==
    CASE t[1] = "Identifier" -> <<t[3]>>
      [] t[1] = "List" -> flat_idns(t[3][1])
      [] t[1] \in {"Tuple", "Union"} -> Flatten([i \in DOMAIN t[3] |-> flat_idns(t[3][i])])
      [] t[1] = "Dictionary" -> flat_idns(t[3][1]) \o flat_idns(t[3][2])

\* Identifier::is_valid_type
is_valid_type(idn) == idn[1] \in {"Ref", "Local", "Primitive"}

\* Identifier::name of an identifier whose name is one text
NameOf(idn) == idn[2]

\* a variant of visit_class that keeps the names of the primitive types
used_typesWithPrimitives(fs) ==
    LET idns == Flatten([i \in DOMAIN fs |-> flat_idns(fs[i])])
    IN  {NameOf(idns[i]) : i \in {j \in DOMAIN idns : is_valid_type(idns[j])}}

\* types/mod.rs lines 376-387: the local used_types of visit_class
used_types(fs) ==
    LET idns == Flatten([i \in DOMAIN fs |-> flat_idns(fs[i])])
    IN  {NameOf(idns[i]) :
           i \in {j \in DOMAIN idns : is_valid_type(idns[j]) /\ idns[j][1] # "Primitive"}}

\* HashMap::insert
MapInsert(m, k, v) == [x \in DOMAIN m \cup {k} |-> IF x = k THEN v ELSE m[x]]

\* walkers/mod.rs lines 78-87
find_type(idn) == IF idn[1] = "Local" THEN find_type_by_str(idn[2]) ELSE <<>>

\* baml_types::FieldType
RawPrimitive(x)  == <<"Primitive", x>>
Class(n)         == <<"Class", n>>
Enum(n)          == <<"Enum", n>>
Optional(t)      == <<"Optional", t>>
RawList(t)       == <<"List", t>>
RawTuple(items)  == <<"Tuple", items>>
RawUnion(items)  == <<"Union", items>>
RawMap(k, v)     == <<"Map", <<k, v>>>>

\* for _ in 0..dims { t = List(t) }
RECURSIVE Nest(_, _)
Nest(t, dims) == IF dims = 0 THEN t ELSE Nest(RawList(t), dims - 1)

\* walkers/mod.rs lines 244-264: the type of an identifier, before its arity
RawIdentifier(idn) ==
    CASE idn[1] = "ENV" -> RawPrimitive("String")
      [] idn[1] = "Ref" ->
            IF find_type(idn) = <<>> THEN RawPrimitive("Null")
            ELSE IF tops[find_type(idn)[1]].kind = "class" THEN Class(idn[2])
            ELSE RawPrimitive("String")
      [] idn[1] = "Local" ->
            IF find_type(idn) = <<>> THEN RawPrimitive("Null")
            ELSE IF tops[find_type(idn)[1]].kind = "class" THEN Class(idn[2])
            ELSE Enum(idn[2])
      [] idn[1] = "Primitive" -> RawPrimitive(idn[2])
      [] idn[1] = "String" -> RawPrimitive("String")
      [] idn[1] = "Invalid" -> RawPrimitive("Null")

\* if arity.is_optional() { Optional(t) } else { t }
WithArity(arity, t) == IF is_optional(arity) THEN Optional(t) ELSE t

RECURSIVE to_raw_field_type(_)

\* a variant of to_raw_field_type that moves the optionality of the items
\* of a union to the union
to_raw_field_typeHoisting(t) ==
    CASE t[1] = "Identifier" -> WithArity(t[2], RawIdentifier(t[3]))
      [] t[1] = "List" -> Nest(to_raw_field_type(t[3][1]), t[3][2])
      [] t[1] = "Tuple" ->
            WithArity(t[2], RawTuple([i \in DOMAIN t[3] |-> to_raw_field_type(t[3][i])]))
      [] t[1] = "Union" ->
            LET items == [i \in DOMAIN t[3] |-> to_raw_field_type(t[3][i])]
                inner(x) == IF x[1] = "Optional" THEN x[2] ELSE x
            IN  IF is_optional(t[2]) \/ \E i \in DOMAIN items : items[i][1] = "Optional"
                THEN Optional(RawUnion([i \in DOMAIN items |-> inner(items[i])]))
                ELSE RawUnion(items)
      [] t[1] = "Dictionary" ->
            RawMap(to_raw_field_type(t[3][1]), to_raw_field_type(t[3][2]))

\* walkers/mod.rs lines 241-312
to_raw_field_type(t) ==
    CASE t[1] = "Identifier" -> WithArity(t[2], RawIdentifier(t[3]))
      [] t[1] = "List" -> Nest(to_raw_field_type(t[3][1]), t[3][2])
      [] t[1] = "Tuple" ->
            WithArity(t[2], RawTuple([i \in DOMAIN t[3] |-> to_raw_field_type(t[3][i])]))
      [] t[1] = "Union" ->
            WithArity(t[2], RawUnion([i \in DOMAIN t[3] |-> to_raw_field_type(t[3][i])]))
      [] t[1] = "Dictionary" ->
            RawMap(to_raw_field_type(t[3][1]), to_raw_field_type(t[3][2]))

\* to_prompt, validate_file, visit_variant and the expressions are idle; the
\* schema is built and no query on it has been made
InitTypes ==
    /\ IdlePrompt
    /\ IdleValidate
    /\ IdleVariant
    /\ IdleExpr
    /\ tops \in TypeSchemas
    /\ qpc = "idle"
    /\ calls = <<>>
    /\ arg = None
    /\ walker = <<>>
    /\ answer = <<>>
    /\ schema_diagnostics = <<>>
    /\ steps = <<>>
    /\ cpc = "start"
    /\ ti = 0
    /\ class_fields = <<>>
    /\ class_dependencies = <<>>
    /\ ft = <<>>
    /\ raw = <<>>

\* types/mod.rs lines 30-33 and 375-389: the loop of resolve_types reaches a
\* class and visit_class records its dependencies
VisitClass ==
    /\ cpc \in {"start", "visiting"}
    /\ ti < Len(tops)
    /\ tops[ti + 1].kind = "class"
    /\ \E fs \in IF class_dependencies = <<>> THEN ClassFieldLists ELSE LaterFieldLists :
          /\ class_fields' = fs
          /\ class_dependencies' = MapInsert(class_dependencies, ti + 1, used_types(fs))
    /\ ti' = ti + 1
    /\ cpc' = "visiting"
    /\ UNCHANGED <<ft, raw>>
    /\ UNCHANGED exceptTypes

\* types/mod.rs lines 30-48: the loop reaches a declaration of another kind,
\* whose visit leaves class_dependencies alone
VisitOther ==
    /\ cpc \in {"start", "visiting"}
    /\ ti < Len(tops)
    /\ tops[ti + 1].kind # "class"
    /\ ti' = ti + 1
    /\ cpc' = "visiting"
    /\ UNCHANGED <<class_fields, class_dependencies, ft, raw>>
    /\ UNCHANGED exceptTypes

\* types/mod.rs line 49: the loop of resolve_types ends
Resolved ==
    /\ cpc \in {"start", "visiting"}
    /\ ti = Len(tops)
    /\ cpc' = "resolved"
    /\ UNCHANGED <<ti, class_fields, class_dependencies, ft, raw>>
    /\ UNCHANGED exceptTypes

\* walkers/mod.rs lines 241-312, called on a field type of the schema
ToRawFieldType ==
    /\ cpc = "start"
    /\ \E t \in FieldTypes :
          /\ ft' = t
          /\ raw' = <<to_raw_field_type(t)>>
    /\ cpc' = "converted"
    /\ UNCHANGED <<ti, class_fields, class_dependencies>>
    /\ UNCHANGED exceptTypes

NextTypes ==
    \/ VisitClass
    \/ VisitOther
    \/ Resolved
    \/ ToRawFieldType

SpecTypes == InitTypes /\ [][NextTypes]_vars

---------------------------------------------------------------------------
(* Claims about the types, checked under SpecTypes. *)

\* the nodes of a field type: the type and the nodes of its inner types
RECURSIVE Nodes(_)
Nodes(t) ==
    {t} \cup
    CASE t[1] = "Identifier" -> {}
      [] t[1] \in {"List", "Dictionary"} ->
            UNION {Nodes(t[3][i]) : i \in {j \in DOMAIN t[3] : j = 1 \/ t[1] = "Dictionary"}}
      [] t[1] \in {"Tuple", "Union"} -> UNION {Nodes(t[3][i]) : i \in DOMAIN t[3]}

\* the names of the valid non-primitive type identifiers that the fields fs
\* reference at any depth
ReferencedNames(fs) ==
    {n[3][2] : n \in {m \in UNION {Nodes(fs[i]) : i \in DOMAIN fs} :
                        m[1] = "Identifier" /\ m[3][1] \in {"Local", "Ref"}}}

\* C22: the dependency set recorded for a class is exactly the set of the
\* names of the valid non-primitive type identifiers that its fields
\* reference at any nesting depth, whatever contains them (a reference of
\* the class to itself included); every class has an entry, the empty set
\* when it references none.
C22_ClassDependencies ==
    /\ cpc \in {"visiting", "resolved"} =>
         /\ DOMAIN class_dependencies = {i \in 1..ti : tops[i].kind = "class"}
         /\ (ti > 0 /\ tops[ti].kind = "class") =>
               class_dependencies[ti] = ReferencedNames(class_fields)
    /\ cpc = "resolved" => DOMAIN class_dependencies = Declared("class")

C22_Witness ==
    /\ cpc = "visiting"
    /\ ti = 1
    /\ tops = <<[kind |-> "class", name |-> "A"], [kind |-> "class", name |-> "B"]>>
    /\ class_fields = <<FtUnion("optional", <<FtList(FtIdentifier("optional", <<"Local", "A">>), 1)>>)>>
    /\ class_dependencies[1] = {"A"}

\* r without the dims enclosing List of a list of dims dimensions, as an
\* Option: None if r is not nested that deep
RECURSIVE Unnest(_, _)
Unnest(r, dims) ==
    IF dims = 0 THEN <<r>>
    ELSE IF r[1] = "List" THEN Unnest(r[2], dims - 1)
    ELSE <<>>

\* r is the resolution of the field type t: every node of t resolves to its
\* own constructor over the resolutions of its inner nodes, an Identifier,
\* Tuple or Union node being wrapped in Optional exactly when its own arity
\* is optional
RECURSIVE ResolvesTo(_, _)
ResolvesTo(t, r) ==
    IF t[1] \in {"Identifier", "Tuple", "Union"}
    THEN /\ (r[1] = "Optional") <=> is_optional(t[2])
         /\ LET b == IF r[1] = "Optional" THEN r[2] ELSE r
            IN  IF t[1] = "Identifier"
                THEN /\ b[1] \in {"Primitive", "Class", "Enum"}
                     /\ b = RawIdentifier(t[3])
                ELSE /\ b[1] = t[1]
                     /\ Len(b[2]) = Len(t[3])
                     /\ \A i \in DOMAIN t[3] : ResolvesTo(t[3][i], b[2][i])
    ELSE IF t[1] = "List"
    THEN /\ Unnest(r, t[3][2]) # <<>>
         /\ ResolvesTo(t[3][1], Unnest(r, t[3][2])[1])
    ELSE /\ r[1] = "Map"
         /\ ResolvesTo(t[3][1], r[2][1])
         /\ ResolvesTo(t[3][2], r[2][2])

\* C23: to_raw_field_type resolves a composite field type recursively and
\* applies optionality at the node that declares it: the result for an
\* Identifier, Tuple or Union node is wrapped in Optional exactly when the
\* arity of that node is optional, and the optionality of a node changes
\* neither how its inner nodes nor how its enclosing nodes resolve.
C23_OptionalWhereDeclared ==
    cpc = "converted" => ResolvesTo(ft, raw[1])

C23_Witness ==
    /\ cpc = "converted"
    /\ tops = <<[kind |-> "class", name |-> "A"], [kind |-> "enum", name |-> "B"]>>
    /\ ft = FtUnion("required",
                    <<FtIdentifier("optional", <<"Primitive", "int">>),
                      FtTuple("optional", <<FtIdentifier("optional", <<"Local", "A">>),
                                            FtIdentifier("required", <<"Local", "B">>)>>)>>)
    /\ raw = <<RawUnion(<<Optional(RawPrimitive("int")),
                          Optional(RawTuple(<<Optional(Class("A")), Enum("B")>>))>>)>>

\* C30: try_from_schema on a schema without errors and with an explicit
\* target name yields the Class target for a declared class and the Enum
\* target for a declared enum, and returns an error result, without
\* aborting, when the name is not that of a declared class or enum (the name
\* of a variant, of a template string or of a configuration included).
C30_ExplicitTarget ==
    (qpc = "done" /\ calls = <<"try_from_schema">> /\ arg # None
        /\ ~has_errors(schema_diagnostics)) =>
        LET hits == {i \in DOMAIN tops : tops[i].name = arg}
        IN  IF \E i \in hits : tops[i].kind = "class"
            THEN answer[1] = "Ok" /\ answer[2].target = <<"Class", arg>>
            ELSE IF \E i \in hits : tops[i].kind = "enum"
            THEN answer[1] = "Ok" /\ answer[2].target = <<"Enum", arg>>
            ELSE answer[1] = "Err"

=============================================================================
